---- MODULE Spec2Model ----
(***************************************************************************)
(* Model of the PBR workflow converter (minecraft-pbr-conversion).         *)
(*                                                                         *)
(* File names are sequences of one-character strings, so that endsWith,    *)
(* slice and replace are computed as the code computes them.  A texture is *)
(* a record [width, height, channels, data] whose data is the interleaved  *)
(* byte sequence; index i of a JavaScript Buffer is element i+1 here.      *)
(* Floating point expressions are modelled by integer expressions that     *)
(* give the same value for every byte input (see each operator).           *)
(***************************************************************************)
EXTENDS Integers, Sequences, FiniteSets, TLC

\* ------------------------------------------------------------------------
\* Bounds of the model
\* ------------------------------------------------------------------------

\* Largest number of pixels of a generated texture (width n, height 1).
MaxPixels == 2

\* Largest number of files in the directory convert-dir works on.
MaxBatchFiles == 3

\* ------------------------------------------------------------------------
\* Strings (sequences of characters) and paths
\* ------------------------------------------------------------------------

Max(a, b) == IF a >= b THEN a ELSE b

Min(a, b) == IF a <= b THEN a ELSE b

\* String.prototype.endsWith
EndsWith(s, suf) ==
  /\ Len(s) >= Len(suf)
  /\ SubSeq(s, Len(s) - Len(suf) + 1, Len(s)) = suf

\* s.slice(0, -k)
SliceOff(s, k) == SubSeq(s, 1, Len(s) - k)

\* String.prototype.indexOf, 1-based; 0 when pat does not occur
IndexOf(s, pat) ==
  LET hits == { i \in 1..(Len(s) - Len(pat) + 1) :
                  SubSeq(s, i, i + Len(pat) - 1) = pat }
  IN  IF hits = {} THEN 0
      ELSE CHOOSE i \in hits : \A j \in hits : i <= j

\* String.prototype.replace(pat, '') with a string pattern: removes the
\* first occurrence only
RemoveFirst(s, pat) ==
  LET i == IndexOf(s, pat)
  IN  IF i = 0 THEN s
      ELSE SubSeq(s, 1, i - 1) \o SubSeq(s, i + Len(pat), Len(s))

\* String.prototype.toLowerCase on the characters the model uses
LowerChar(c) == IF c = "A" THEN "a" ELSE c

ToLowerCase(s) == [i \in 1..Len(s) |-> LowerChar(s[i])]

\* path.extname: from the last '.' to the end; empty when there is no '.'
\* or the only '.' is the first character
ExtName(file) ==
  LET dots == { i \in 1..Len(file) : file[i] = "." }
      last == CHOOSE i \in dots : \A j \in dots : j <= i
  IN  IF dots = {} THEN << >>
      ELSE IF last = 1 THEN << >>
      ELSE SubSeq(file, last, Len(file))

\* path.basename(p, ext)
BaseName(file, ext) ==
  IF ext # << >> /\ file # ext /\ EndsWith(file, ext)
  THEN SliceOff(file, Len(ext))
  ELSE file

\* path.join(dir, name)
Join(d, name) == [dir |-> d, file |-> name]

S_s == <<"_", "s">>

S_n == <<"_", "n">>

S_mer == <<"_", "m", "e", "r">>

S_mers == <<"_", "m", "e", "r", "s">>

S_normal == <<"_", "n", "o", "r", "m", "a", "l">>

S_heightmap == <<"_", "h", "e", "i", "g", "h", "t", "m", "a", "p">>

S_withAO == <<"_", "w", "i", "t", "h", "A", "O">>

S_diffuse == <<"_", "d", "i", "f", "f", "u", "s", "e">>

S_color == <<"_", "c", "o", "l", "o", "r">>

DotPng == <<".", "p", "n", "g">>

DotTga == <<".", "t", "g", "a">>

\* ------------------------------------------------------------------------
\* FormatDetector
\* ------------------------------------------------------------------------

\* enum TextureFormat
Bedrock == 0

LabPBR == 1

Unknown == 2

\* enum ConversionDirection
BedrockToLabPBR == 0

LabPBRToBedrock == 1

Auto == 2

\* An optional value is << >> (undefined) or <<v>>.
Some(v) == <<v>>

None == << >>

\* Confidence scores are kept in tenths: the code adds 0.4, 0.3 and 0.1 in
\* this order, and the double results 0.1, 0.3, 0.4, 0.5, 0.7 and
\* 0.7999999999999999 compare with each other, with 0 and with 0.7 exactly
\* as 1, 3, 4, 5, 7 and 8 compare with each other, with 0 and with 7.
NameScore == 4

PresenceScore == 3

BaseScore == 1

\* The names detectFormat derives from the input path (lines 44-67)
detectNames(texturePath) ==
  LET dir == texturePath.dir
      ext == ExtName(texturePath.file)
      baseName == BaseName(texturePath.file, ext)
      isLabPBRSpecular == EndsWith(baseName, S_s)
      isLabPBRNormal == EndsWith(baseName, S_n)
      isBedrockMER == EndsWith(baseName, S_mer)
      baseNameWithoutSuffix ==
        IF isLabPBRSpecular THEN SliceOff(baseName, 2)
        ELSE IF isLabPBRNormal THEN SliceOff(baseName, 2)
        ELSE IF isBedrockMER THEN SliceOff(baseName, 4)
        ELSE baseName
  IN  [isLabPBRSpecular |-> isLabPBRSpecular,
       isLabPBRNormal |-> isLabPBRNormal,
       isBedrockMER |-> isBedrockMER,
       baseTexturePath |-> Join(dir, baseNameWithoutSuffix \o ext),
       specularTexturePath |-> Join(dir, baseNameWithoutSuffix \o S_s \o ext),
       normalTexturePath |-> Join(dir, baseNameWithoutSuffix \o S_n \o ext),
       merTexturePath |-> Join(dir, baseNameWithoutSuffix \o S_mer \o ext)]

\* A LabPBR score that forgets the suffix of the input name
labPBRConfidence_NoNameScore(exists, texturePath) ==
  LET n == detectNames(texturePath)
  IN    (IF n.specularTexturePath \in exists /\ n.normalTexturePath \in exists
         THEN PresenceScore ELSE 0)
      + (IF n.baseTexturePath \in exists THEN BaseScore ELSE 0)

\* The LabPBR score of detectFormat (lines 75-98); exists is the set of
\* paths for which fs.existsSync answers true
labPBRConfidence(exists, texturePath) ==
  LET n == detectNames(texturePath)
  IN    (IF n.isLabPBRSpecular \/ n.isLabPBRNormal THEN NameScore ELSE 0)
      + (IF n.specularTexturePath \in exists /\ n.normalTexturePath \in exists
         THEN PresenceScore ELSE 0)
      + (IF n.baseTexturePath \in exists THEN BaseScore ELSE 0)

\* A Bedrock score that forgets the presence of the packed texture
bedrockConfidence_NoPresence(exists, texturePath) ==
  LET n == detectNames(texturePath)
  IN    (IF n.isBedrockMER THEN NameScore ELSE 0)
      + (IF n.baseTexturePath \in exists THEN BaseScore ELSE 0)

\* The Bedrock score of detectFormat (lines 76-98)
bedrockConfidence(exists, texturePath) ==
  LET n == detectNames(texturePath)
  IN    (IF n.isBedrockMER THEN NameScore ELSE 0)
      + (IF n.merTexturePath \in exists THEN PresenceScore ELSE 0)
      + (IF n.baseTexturePath \in exists THEN BaseScore ELSE 0)

\* A decision that reports the candidate paths without looking at
\* fs.existsSync
decideFormat_Unchecked(exists, n, lab, bed) ==
  IF lab > bed
  THEN [format |-> LabPBR,
        confidence |-> lab,
        baseTexturePath |-> Some(n.baseTexturePath),
        merTexturePath |-> None,
        specularTexturePath |-> Some(n.specularTexturePath),
        normalTexturePath |-> Some(n.normalTexturePath)]
  ELSE IF bed > 0
  THEN [format |-> Bedrock,
        confidence |-> bed,
        baseTexturePath |-> Some(n.baseTexturePath),
        merTexturePath |-> Some(n.merTexturePath),
        specularTexturePath |-> None,
        normalTexturePath |-> None]
  ELSE [format |-> Unknown,
        confidence |-> 0,
        baseTexturePath |-> None,
        merTexturePath |-> None,
        specularTexturePath |-> None,
        normalTexturePath |-> None]

\* The decision of detectFormat (lines 100-116) from the names n and the
\* scores lab and bed; a path is set only when its file exists
decideFormat(exists, n, lab, bed) ==
  LET opt(p) == IF p \in exists THEN Some(p) ELSE None
  IN  IF lab > bed
      THEN [format |-> LabPBR,
            confidence |-> lab,
            baseTexturePath |-> opt(n.baseTexturePath),
            merTexturePath |-> None,
            specularTexturePath |-> opt(n.specularTexturePath),
            normalTexturePath |-> opt(n.normalTexturePath)]
      ELSE IF bed > 0
      THEN [format |-> Bedrock,
            confidence |-> bed,
            baseTexturePath |-> opt(n.baseTexturePath),
            merTexturePath |-> opt(n.merTexturePath),
            specularTexturePath |-> None,
            normalTexturePath |-> None]
      ELSE [format |-> Unknown,
            confidence |-> 0,
            baseTexturePath |-> None,
            merTexturePath |-> None,
            specularTexturePath |-> None,
            normalTexturePath |-> None]

\* FormatDetector.detectFormat
detectFormat(exists, texturePath) ==
  decideFormat(exists, detectNames(texturePath),
               labPBRConfidence(exists, texturePath),
               bedrockConfidence(exists, texturePath))

\* ------------------------------------------------------------------------
\* Buffers and textures
\* ------------------------------------------------------------------------

\* buf[i] of a Buffer: a byte, or undefined (-1 here) outside the buffer
ReadByte(buf, i) == IF i >= 0 /\ i < Len(buf) THEN buf[i + 1] ELSE -1

\* The byte a Buffer stores when v is assigned to one of its elements:
\* undefined and NaN (-1 here) are stored as 0
ToByte(v) == IF v < 0 THEN 0 ELSE v % 256

\* buf[i] = v: an assignment outside the buffer is ignored
WriteByte(buf, i, v) ==
  IF i >= 0 /\ i < Len(buf) THEN [buf EXCEPT ![i + 1] = ToByte(v)] ELSE buf

NoTexture == [width |-> 0, height |-> 0, channels |-> 0, data |-> << >>]

\* An extraction that takes the pixel count from the length of the data
extractChannels_Truncating(textureData) ==
  LET channels == textureData.channels
      data == textureData.data
      pixelCount == Len(data) \div channels
      plane(c) == [i \in 1..pixelCount |->
                     ToByte(ReadByte(data, (i - 1) * channels + c))]
  IN  [r |-> plane(0),
       g |-> plane(1),
       b |-> plane(2),
       a |-> IF channels = 4 THEN Some(plane(3)) ELSE None,
       width |-> textureData.width,
       height |-> textureData.height]

\* ChannelExtractor.extractChannels
extractChannels(textureData) ==
  LET channels == textureData.channels
      data == textureData.data
      pixelCount == textureData.width * textureData.height
      plane(c) == [i \in 1..pixelCount |->
                     ToByte(ReadByte(data, (i - 1) * channels + c))]
  IN  [r |-> plane(0),
       g |-> plane(1),
       b |-> plane(2),
       a |-> IF channels = 4 THEN Some(plane(3)) ELSE None,
       width |-> textureData.width,
       height |-> textureData.height]

\* ChannelExtractor.extractMERChannels
extractMERChannels(textureData) ==
  LET channels == extractChannels(textureData)
  IN  [metallic |-> channels.r,
       emissive |-> channels.g,
       roughness |-> channels.b,
       subsurface |-> channels.a]

\* A combination that drops the alpha plane
combineChannels_NoAlpha(channels) ==
  LET pixelCount == channels.width * channels.height
      byteAt(k) ==
        LET i == k \div 3
            c == k % 3
        IN  IF c = 0 THEN ReadByte(channels.r, i)
            ELSE IF c = 1 THEN ReadByte(channels.g, i)
            ELSE ReadByte(channels.b, i)
  IN  [width |-> channels.width,
       height |-> channels.height,
       data |-> [k \in 1..(pixelCount * 3) |-> ToByte(byteAt(k - 1))],
       channels |-> 3]

\* ChannelExtractor.combineChannels
combineChannels(channels) ==
  LET pixelCount == channels.width * channels.height
      hasAlpha == channels.a # None
      channelCount == IF hasAlpha THEN 4 ELSE 3
      byteAt(k) ==
        LET i == k \div channelCount
            c == k % channelCount
        IN  IF c = 0 THEN ReadByte(channels.r, i)
            ELSE IF c = 1 THEN ReadByte(channels.g, i)
            ELSE IF c = 2 THEN ReadByte(channels.b, i)
            ELSE ReadByte(channels.a[1], i)
  IN  [width |-> channels.width,
       height |-> channels.height,
       data |-> [k \in 1..(pixelCount * channelCount) |->
                   ToByte(byteAt(k - 1))],
       channels |-> channelCount]

\* ------------------------------------------------------------------------
\* WorkflowConverter (packed -> LabPBR)
\* ------------------------------------------------------------------------

\* A smoothness that is not inverted: Math.round(255 * sqrt(r / 255))
roughnessToSmoothness_NotInverted(roughness) ==
  LET ks == { k \in 0..255 :
                k = 0 \/ (2 * k - 1) * (2 * k - 1) <= 1020 * roughness }
  IN  CHOOSE k \in ks : \A j \in ks : j <= k

\* A linear smoothness, as the inverse direction computes it
roughnessToSmoothness_Linear(roughness) == 255 - roughness

\* Math.round(255 * (1 - sqrt(r / 255))) = floor(255.5 - sqrt(255 r)) is
\* the largest k with (511 - 2k)^2 >= 1020 r; the two sides are never
\* equal (odd against even), so rounding of the doubles cannot change it.
roughnessToSmoothness(roughness) ==
  LET ks == { k \in 0..255 : (511 - 2 * k) * (511 - 2 * k) >= 1020 * roughness }
      rounded == CHOOSE k \in ks : \A j \in ks : j <= k
  IN  Max(0, Min(255, rounded))

\* A linear roughness, as the inverse direction computes it
smoothnessToRoughness_Linear(smoothness) == 255 - smoothness

\* Math.round(255 * (1 - s / 255)^2) = floor(((255 - s)^2 + 127.5) / 255)
smoothnessToRoughness(smoothness) ==
  LET rounded == (2 * (255 - smoothness) * (255 - smoothness) + 255) \div 510
  IN  Max(0, Min(255, rounded))

\* A test that takes 200 for a metal already
isMetallic_AtThreshold(metallic) == metallic >= 200

\* WorkflowConverter.isMetallic
isMetallic(metallic) == metallic > 200

\* A conversion that does not scale a non-metal into 4..229
metallicToF0_Unscaled(metallic) ==
  IF metallic > 200
  THEN Min(255, 230 + ((metallic - 200) \div 5))
  ELSE metallic

\* A conversion that takes 200 for a metal already
metallicToF0_AtThreshold(metallic) ==
  IF metallic >= 200
  THEN Min(255, 230 + ((metallic - 200) \div 5))
  ELSE (153 + 30 * metallic) \div 34

\* WorkflowConverter.metallicToF0; Math.round(4 + (m / 255) * 225) is
\* floor((153 + 30 m) / 34), and 4 + 15 m / 17 is never a half-integer
metallicToF0(metallic) ==
  IF metallic > 200
  THEN Min(255, 230 + ((metallic - 200) \div 5))
  ELSE (153 + 30 * metallic) \div 34

\* An emissive value that is copied unchanged
convertEmissive_Identity(emissive) == emissive

\* WorkflowConverter.convertEmissive
convertEmissive(emissive) == Min(254, emissive)

\* enum PredefinedMetal
Iron == 230

Gold == 231

Copper == 234

Silver == 237

\* WorkflowConverter.getPredefinedMetal; a comparison with undefined (-1)
\* is false, and r, g, b are undefined together
getPredefinedMetal(r, g, b) ==
  IF r > 200 /\ g > 150 /\ b < 100 THEN Gold
  ELSE IF r > 200 /\ g < 150 /\ b < 100 THEN Copper
  ELSE IF r > 200 /\ g > 200 /\ b > 200 THEN Silver
  ELSE IF r > 100 /\ r < 200 /\ g > 100 /\ g < 200 /\ b > 100 /\ b < 200
       THEN Iron
  ELSE Iron

\* A subsurface value scaled without the offset 65
convertSubsurface_NoOffset(subsurface) ==
  IF subsurface = 0 THEN 0
  ELSE (38 * subsurface) \div 51

\* WorkflowConverter.convertSubsurface: 65 + floor((s / 255) * 190)
convertSubsurface(subsurface) ==
  IF subsurface = 0 THEN 0
  ELSE 65 + ((38 * subsurface) \div 51)

\* A porosity scaled to the whole byte: Math.round(p * 255)
convertPorosity_WholeByte(porosityTenths) == (porosityTenths * 255 + 5) \div 10

\* WorkflowConverter.convertPorosity, with the porosity given in tenths:
\* Math.round(p * 64)
convertPorosity(porosityTenths) == (porosityTenths * 64 + 5) \div 10

\* The porosity convertTexture passes for a pixel without subsurface (0.1)
DefaultPorosityTenths == 1

\* ------------------------------------------------------------------------
\* BidirectionalWorkflowConverter (LabPBR -> packed)
\* ------------------------------------------------------------------------

\* BidirectionalWorkflowConverter.smoothnessToBedrockRoughness
smoothnessToBedrockRoughness(smoothness) == 255 - smoothness

\* A step function without the step at 150
f0ToMetallic_NoStepAt150(f0) ==
  IF f0 >= 230 THEN 255
  ELSE IF f0 >= 200 THEN 255
  ELSE IF f0 >= 100 THEN 180
  ELSE IF f0 >= 50 THEN 100
  ELSE 0

\* BidirectionalWorkflowConverter.f0ToMetallic
f0ToMetallic(f0) ==
  IF f0 >= 230 THEN 255
  ELSE IF f0 >= 200 THEN 255
  ELSE IF f0 >= 150 THEN 230
  ELSE IF f0 >= 100 THEN 180
  ELSE IF f0 >= 50 THEN 100
  ELSE 0

\* A reconstruction without Math.min and without the NaN guard: the
\* square root of a negative number is NaN (-1 here), and so is its rounding
reconstructNormalMapBlueChannel_NoGuard(r, g) ==
  LET d == 65025 - r * r - g * g
      ks == { k \in 0..255 : (2 * k - 1) * (2 * k - 1) <= 4 * d }
  IN  IF d < 0 THEN -1
      ELSE IF d = 0 THEN 0
      ELSE CHOOSE k \in ks : \A j \in ks : j <= k

\* BidirectionalWorkflowConverter.reconstructNormalMapBlueChannel:
\* Math.round(255 * sqrt(1 - min(1, (r^2 + g^2) / 255^2))) is 0 when
\* r^2 + g^2 >= 255^2 and otherwise the largest k with
\* (2k - 1)^2 <= 4 (255^2 - r^2 - g^2), the two sides never being equal
reconstructNormalMapBlueChannel(r, g) ==
  LET d == 65025 - r * r - g * g
      ks == { k \in 0..255 : (2 * k - 1) * (2 * k - 1) <= 4 * d }
  IN  IF d <= 0 THEN 0
      ELSE CHOOSE k \in ks : \A j \in ks : j <= k

\* ------------------------------------------------------------------------
\* NormalMapProcessor
\* ------------------------------------------------------------------------

\* NormalMapProcessor.extractHeightMap throws when the texture does not have
\* 4 channels (lines 329-332); with 4 channels the alpha plane is extracted
\* and the second throw (lines 337-339) cannot happen
extractHeightMapThrows(normalTextureData) == normalTextureData.channels # 4

\* NormalMapProcessor.extractHeightMap, for a texture with 4 channels
extractHeightMap(normalTextureData) ==
  LET channelData == extractChannels(normalTextureData)
      n == normalTextureData.width * normalTextureData.height
  IN  [width |-> normalTextureData.width,
       height |-> normalTextureData.height,
       data |-> [i \in 1..n |-> ToByte(ReadByte(channelData.a[1], i - 1))],
       channels |-> 1]

\* A reconstruction that keeps the blue byte of the input
reconstructNormalMap_KeepsBlue(normalTextureData) ==
  LET channelData == extractChannels(normalTextureData)
      n == normalTextureData.width * normalTextureData.height
      byteAt(k) ==
        LET i == k \div 3
            c == k % 3
        IN  IF c = 0 THEN channelData.r[i + 1]
            ELSE IF c = 1 THEN channelData.g[i + 1]
            ELSE channelData.b[i + 1]
  IN  [width |-> normalTextureData.width,
       height |-> normalTextureData.height,
       data |-> [k \in 1..(n * 3) |-> byteAt(k - 1)],
       channels |-> 3]

\* NormalMapProcessor.reconstructNormalMap; its inline formula for blue is
\* the one of reconstructNormalMapBlueChannel
reconstructNormalMap(normalTextureData) ==
  LET channelData == extractChannels(normalTextureData)
      n == normalTextureData.width * normalTextureData.height
      byteAt(k) ==
        LET i == k \div 3
            c == k % 3
            d == 65025 - channelData.r[i + 1] * channelData.r[i + 1]
                       - channelData.g[i + 1] * channelData.g[i + 1]
            ks == { j \in 0..255 : (2 * j - 1) * (2 * j - 1) <= 4 * d }
        IN  IF c = 0 THEN channelData.r[i + 1]
            ELSE IF c = 1 THEN channelData.g[i + 1]
            ELSE IF d <= 0 THEN 0
            ELSE CHOOSE j \in ks : \A j2 \in ks : j2 <= j
  IN  [width |-> normalTextureData.width,
       height |-> normalTextureData.height,
       data |-> [k \in 1..(n * 3) |-> byteAt(k - 1)],
       channels |-> 3]

\* NormalMapProcessor.createDirectXNormalMap; an undefined x or y (-1 here)
\* makes the square root NaN, which the guard turns into 0
createDirectXNormalMap(normalX, normalY, width, height) ==
  LET n == width * height
      byteAt(k) ==
        LET i == k \div 3
            c == k % 3
            x == ReadByte(normalX, i)
            y == ReadByte(normalY, i)
            d == 65025 - x * x - y * y
            ks == { j \in 0..255 : (2 * j - 1) * (2 * j - 1) <= 4 * d }
        IN  IF c = 0 THEN x
            ELSE IF c = 1 THEN y
            ELSE IF x < 0 \/ y < 0 \/ d <= 0 THEN 0
            ELSE CHOOSE j \in ks : \A j2 \in ks : j2 <= j
  IN  [width |-> width,
       height |-> height,
       data |-> [k \in 1..(n * 3) |-> ToByte(byteAt(k - 1))],
       channels |-> 3]

\* The (colour, ao) pairs for which colour * (255 + ao) / 510 is a
\* half-integer and the double the code computes,
\* colour * (1 - (1 - ao / 255) * 0.5), lies just below it, so that
\* Math.round rounds down
AORoundsDown(colour, ao) ==
  \/ ao \in {10, 40} /\ colour \in {51, 153, 255}
  \/ ao \in {42, 72} /\ colour \in {85, 255}
  \/ ao = 102 /\ colour \in {45, 85, 165, 175}
  \/ ao = 136 /\ colour \in {75, 135, 165, 255}
  \/ ao \in {104, 138, 168, 200, 202, 232, 234} /\ colour = 255
  \/ ao = 170 /\ colour \in {9, 15, 27, 33, 51, 57, 63, 69, 75, 99, 105, 111,
                             117, 123, 129, 135, 141, 147, 153, 195, 201, 207,
                             213, 219, 225, 231, 237, 243, 249, 255}

\* A darkening by the whole ambient occlusion: Math.round(colour * ao / 255)
bakeAOValue_FullStrength(colour, ao) ==
  IF colour < 0 \/ ao < 0 THEN -1
  ELSE (2 * colour * ao + 255) \div 510

\* Math.round(colour * (1 - (1 - ao / 255) * 0.5)); NaN (-1 here) when the
\* colour or the ao byte is undefined
bakeAOValue(colour, ao) ==
  IF colour < 0 \/ ao < 0 THEN -1
  ELSE IF AORoundsDown(colour, ao) THEN (colour * (255 + ao)) \div 510
  ELSE (colour * (255 + ao) + 255) \div 510

\* NormalMapProcessor.bakeAOIntoBaseColor
bakeAOIntoBaseColor(aoData, baseColorData) ==
  LET channels == baseColorData.channels
      n == baseColorData.width * baseColorData.height
      byteAt(k) ==
        LET i == k \div channels
            c == k % channels
        IN  IF c < 3
            THEN bakeAOValue(ReadByte(baseColorData.data, k),
                             ReadByte(aoData, i))
            ELSE ReadByte(baseColorData.data, k)
  IN  [width |-> baseColorData.width,
       height |-> baseColorData.height,
       data |-> [k \in 1..(n * channels) |-> ToByte(byteAt(k - 1))],
       channels |-> channels]

\* ------------------------------------------------------------------------
\* The two directional procedures, per texture
\* ------------------------------------------------------------------------

\* BidirectionalConverter.createMERTexture (the normal channels it is
\* handed are not read)
createMERTexture(specularChannels, width, height) ==
  LET pixelCount == width * height
      f0(i) == ReadByte(specularChannels.g, i)
      metallic == [i \in 1..pixelCount |->
                     IF f0(i - 1) >= 230 THEN 255
                     ELSE IF f0(i - 1) >= 200 THEN 255
                     ELSE IF f0(i - 1) >= 150 THEN 230
                     ELSE IF f0(i - 1) >= 100 THEN 180
                     ELSE IF f0(i - 1) >= 50 THEN 100
                     ELSE 0]
      roughness == [i \in 1..pixelCount |->
                      ToByte(255 - ReadByte(specularChannels.r, i - 1))]
      emissive == [i \in 1..pixelCount |-> 0]
      subsurface == [i \in 1..pixelCount |->
                       IF ReadByte(specularChannels.b, i - 1) >= 65
                       THEN ReadByte(specularChannels.b, i - 1)
                       ELSE 255]
  IN  combineChannels([r |-> metallic,
                       g |-> emissive,
                       b |-> roughness,
                       a |-> Some(subsurface),
                       width |-> width,
                       height |-> height])

\* A scan that takes 65 for porosity
hasSubsurface_Above65(specularChannels, width, height) ==
  \E i \in 0..(width * height - 1) : ReadByte(specularChannels.b, i) > 65

\* The scan of convertLabPBRToBedrock for a subsurface pixel (lines 164-174)
hasSubsurface(specularChannels, width, height) ==
  \E i \in 0..(width * height - 1) : ReadByte(specularChannels.b, i) >= 65

\* The loop of convertLabPBRToBedrock that runs when no pixel has
\* subsurface (lines 180-187): it stores 255 at the indices
\* pixelCount * 3 + i of the interleaved data, for i < pixelCount
RECURSIVE forceOpaqueFrom(_, _, _, _)
forceOpaqueFrom(data, alphaOffset, i, pixelCount) ==
  IF i >= pixelCount THEN data
  ELSE forceOpaqueFrom(WriteByte(data, alphaOffset + i, 255),
                       alphaOffset, i + 1, pixelCount)

forceOpaque(merTexture) ==
  LET pixelCount == merTexture.width * merTexture.height
      alphaOffset == pixelCount * 3
  IN  [merTexture EXCEPT
         !.data = forceOpaqueFrom(merTexture.data, alphaOffset, 0, pixelCount)]

\* PBRConverter.createSpecularTexture
createSpecularTexture(merChannels, colorChannels, width, height) ==
  LET pixelCount == width * height
      metallic(i) == ReadByte(merChannels.metallic, i)
      subsurface(i) == ReadByte(merChannels.subsurface[1], i)
      smoothness == [i \in 1..pixelCount |->
                       roughnessToSmoothness(merChannels.roughness[i])]
      f0 == [i \in 1..pixelCount |->
               IF isMetallic(metallic(i - 1))
               THEN getPredefinedMetal(ReadByte(colorChannels.r, i - 1),
                                       ReadByte(colorChannels.g, i - 1),
                                       ReadByte(colorChannels.b, i - 1))
               ELSE metallicToF0(metallic(i - 1))]
      porosity == [i \in 1..pixelCount |->
                     IF merChannels.subsurface # None /\ subsurface(i - 1) > 0
                     THEN convertSubsurface(subsurface(i - 1))
                     ELSE convertPorosity(DefaultPorosityTenths)]
      emission == [i \in 1..pixelCount |->
                     convertEmissive(merChannels.emissive[i])]
  IN  combineChannels([r |-> smoothness,
                       g |-> f0,
                       b |-> porosity,
                       a |-> Some(emission),
                       width |-> width,
                       height |-> height])

\* ------------------------------------------------------------------------
\* TextureLoader and TextureWriter
\* ------------------------------------------------------------------------

\* TextureLoader.findColorTexture: the first existing one of <base>.png,
\* <base>_color.png, <base>_diffuse.png, where <base> is the lower-cased
\* file name without '_mer.png' and without '_mer'
findColorTexture(exists, merFilePath) ==
  LET baseName == RemoveFirst(RemoveFirst(ToLowerCase(merFilePath.file),
                                          S_mer \o DotPng), S_mer)
      possibleNames == << baseName \o DotPng,
                          baseName \o S_color \o DotPng,
                          baseName \o S_diffuse \o DotPng >>
      found == { k \in 1..3 : Join(merFilePath.dir, possibleNames[k]) \in exists }
  IN  IF found = {} THEN None
      ELSE Some(Join(merFilePath.dir,
                     possibleNames[CHOOSE k \in found : \A j \in found : k <= j]))

\* TextureWriter.getSpecularTexturePath
getSpecularTexturePath(sourcePath) ==
  LET baseName == RemoveFirst(RemoveFirst(RemoveFirst(
                    BaseName(sourcePath.file, ExtName(sourcePath.file)),
                    S_mer), S_diffuse), S_color)
  IN  Join(sourcePath.dir, baseName \o S_s \o DotPng)

\* The format saveTexture writes (line 43): options.format, else the
\* extension of the output path without its dot, else png
saveFormat(format, outputPath) ==
  IF format # None /\ format[1] # << >> THEN format[1]
  ELSE IF Len(ExtName(outputPath.file)) > 1
       THEN SubSeq(ExtName(outputPath.file), 2, Len(ExtName(outputPath.file)))
  ELSE <<"p", "n", "g">>

\* saveTexture throws for the TGA format before it writes anything (line 56)
saveUnsupported(format, outputPath) ==
  ToLowerCase(saveFormat(format, outputPath)) = <<"t", "g", "a">>

\* The name of a derived output of convertLabPBRToBedrock (lines 190-191,
\* 206-207, 223-224, 244-245)
derivedPath(finalOutputDir, baseTexturePath, suffix) ==
  Join(finalOutputDir,
       BaseName(baseTexturePath.file, ExtName(baseTexturePath.file))
         \o suffix \o ExtName(baseTexturePath.file))

\* ------------------------------------------------------------------------
\* Conversion results
\* ------------------------------------------------------------------------

\* A message is a tuple of its text and the values interpolated into it.
\* The message the catch blocks push: `Error: ${error.message}`
errorMessage(reason) == <<"Error: ">> \o reason

IsErrorMessage(m) == Len(m) >= 1 /\ m[1] = "Error: "

NoPath == [dir |-> "", file |-> << >>]

NoResult ==
  [sourcePath |-> NoPath, outputPaths |-> << >>, conversionDirection |-> None,
   success |-> FALSE, messages |-> << >>]

\* A result object that starts as a success
newResult_StartsSuccessful(sourcePath, direction) ==
  [sourcePath |-> sourcePath, outputPaths |-> << >>,
   conversionDirection |-> direction, success |-> TRUE, messages |-> << >>]

\* The result object a procedure starts with
newResult(sourcePath, direction) ==
  [sourcePath |-> sourcePath, outputPaths |-> << >>,
   conversionDirection |-> direction, success |-> FALSE, messages |-> << >>]

push(res, m) == [res EXCEPT !.messages = Append(@, m)]

\* outputPaths is an object whose keys keep their insertion order
setOutput(res, kind, path) ==
  [res EXCEPT !.outputPaths = Append(@, <<kind, path>>)]

\* A catch block that swallows the error
catchError_Silent(res, reason) == res

\* The catch block of a conversion call (pbrConverter.ts 87-90,
\* bidirectionalConverter.ts 109-112 and 258-261)
catchError(res, reason) == push(res, errorMessage(reason))

OutputKinds(res) == { res.outputPaths[i][1] : i \in 1..Len(res.outputPaths) }

\* ------------------------------------------------------------------------
\* Inputs of the model
\* ------------------------------------------------------------------------

\* A texture of Len(pixels) x 1 pixels with ch channels; a pixel is given
\* as <<r, g, b, a>> and its first ch bytes are stored
RECURSIVE Interleave(_, _)
Interleave(pixels, ch) ==
  IF pixels = << >> THEN << >>
  ELSE SubSeq(Head(pixels), 1, ch) \o Interleave(Tail(pixels), ch)

MakeTexture(pixels, w, h, ch) ==
  [width |-> w, height |-> h, channels |-> ch, data |-> Interleave(pixels, ch)]

Rows(samples) == UNION { [1..n -> samples] : n \in 1..MaxPixels }

\* LabPBR specular pixels <<smoothness, f0, porosity/subsurface, emission>>
SpecularSamples ==
  { <<255, 230, 64, 254>>, <<100, 150, 65, 10>>, <<55, 200, 30, 128>> }

SpecularPool ==
  { MakeTexture(px, Len(px), 1, ch) : px \in Rows(SpecularSamples), ch \in {3, 4} }

\* Packed pixels <<metallic, emissive, roughness, subsurface>>
MERSamples ==
  { <<255, 0, 64, 1>>, <<200, 128, 128, 255>>, <<201, 255, 255, 0>> }

\* The 2x2 packed texture and the mid-gray colour texture of the end-to-end
\* example
ExampleMER ==
  MakeTexture(<< <<0, 0, 0>>, <<255, 0, 64>>, <<0, 128, 128>>,
                 <<255, 128, 255>> >>, 2, 2, 3)

ExampleColor ==
  MakeTexture(<< <<128, 128, 128>>, <<128, 128, 128>>, <<128, 128, 128>>,
                 <<128, 128, 128>> >>, 2, 2, 3)

MERPool ==
  { MakeTexture(px, Len(px), 1, ch) : px \in Rows(MERSamples), ch \in {3, 4} }
  \cup { ExampleMER }

ColorSamples ==
  { <<255, 200, 0, 255>>, <<255, 100, 50, 255>>, <<0, 0, 100, 255>> }

ColorPool ==
  { MakeTexture([i \in 1..MaxPixels |-> c], MaxPixels, 1, 4) : c \in ColorSamples }
  \cup { MakeTexture(<< <<128, 128, 128>> >>, 1, 1, 3), ExampleColor }

\* Pairs of a LabPBR normal texture <<x, y, ambient occlusion, height>> and
\* the base colour texture that goes with it
CompanionPairs ==
  { << MakeTexture(<< <<128, 128, 255, 200>>, <<255, 255, 0, 17>> >>, 2, 1, 4),
       MakeTexture(<< <<255, 51, 9, 77>>, <<100, 200, 50, 255>> >>, 2, 1, 4) >>,
    << MakeTexture(<< <<0, 0, 170>> >>, 1, 1, 3),
       MakeTexture(<< <<85, 1, 0>> >>, 1, 1, 3) >> }

\* The texture the files of the automatic conversion hold
DefaultTexture ==
  MakeTexture(<< <<200, 231, 64, 255>>, <<10, 40, 20, 0>> >>, 2, 1, 4)

\* The textures the normal file of the automatic conversion may hold
TinyPool == { DefaultTexture, MakeTexture(<< <<255, 100, 70>> >>, 1, 1, 3) }

InDir == "in"

OutDir == "out"

FileA == Join(InDir, <<"a">> \o DotPng)

FileA_s == Join(InDir, <<"a">> \o S_s \o DotPng)

FileA_n == Join(InDir, <<"a">> \o S_n \o DotPng)

FileA_mer == Join(InDir, <<"a">> \o S_mer \o DotPng)

AutoFiles == { FileA, FileA_s, FileA_n, FileA_mer }

\* All assignments of the textures of a pool to a set of files
Disks(files, pool) == UNION { [fs -> pool] : fs \in SUBSET files }

Formats == { None, Some(<<"p", "n", "g">>), Some(<<"t", "g", "a">>) }

Directions ==
  { None, Some(BedrockToLabPBR), Some(LabPBRToBedrock), Some(Auto) }

OptionsSet ==
  [conversionDirection : Directions, outputFormat : Formats,
   bakeAO : BOOLEAN, extractHeightMap : BOOLEAN]

\* ------------------------------------------------------------------------
\* State
\* ------------------------------------------------------------------------

VARIABLES
  disk,        \* the files that exist and the texture each holds
  pc,          \* where the running conversion call is suspended
  call,        \* the top-level call: entry point, texturePath, outputDir, options
  det,         \* detectionResult of convertAuto
  args,        \* the paths the running directional procedure works on
  result,      \* the ConversionResult of the directional procedure
  autoResult,  \* the ConversionResult of convertAuto
  tex,         \* the textures loaded so far, by role
  pending,     \* the path and texture of the saveTexture call in flight
  loaded,      \* the loadTexture calls that completed, in order
  saved,       \* the saveTexture calls that completed successfully, in order
  faults,      \* the errors thrown so far, in order
  batch,       \* the convert-dir run: listing, position, processed sets, counts
  eval         \* a call of one pure function: its name, arguments and result

vars ==
  <<disk, pc, call, det, args, result, autoResult, tex, pending, loaded,
    saved, faults, batch, eval>>

NoOptions ==
  [conversionDirection |-> None, outputFormat |-> None,
   bakeAO |-> FALSE, extractHeightMap |-> TRUE]

NoCall ==
  [entry |-> "none", texturePath |-> NoPath, outputDir |-> None,
   options |-> NoOptions]

NoDetection ==
  [format |-> Unknown, confidence |-> 0, baseTexturePath |-> None,
   merTexturePath |-> None, specularTexturePath |-> None,
   normalTexturePath |-> None]

NoArgs ==
  [specular |-> NoPath, normal |-> NoPath, base |-> NoPath,
   mer |-> NoPath, color |-> NoPath]

NoTextures ==
  [specular |-> NoTexture, normal |-> NoTexture, base |-> NoTexture,
   mer |-> NoTexture, color |-> NoTexture]

NoPending == [path |-> NoPath, texture |-> NoTexture]

\* No pure function is being called
NoEval == [op |-> "none", args |-> << >>, out |-> << >>, error |-> ""]

\* No convert-dir run: the conversion calls are made directly
NoBatch ==
  [active |-> FALSE, textureFiles |-> << >>, conversionOptions |-> NoOptions,
   i |-> 0, processedSets |-> {}, successCount |-> 0, failCount |-> 0,
   log |-> << >>, exitCode |-> 0]

NoConversion ==
  /\ pc = "idle"
  /\ call = NoCall
  /\ det = NoDetection
  /\ args = NoArgs
  /\ result = NoResult
  /\ autoResult = NoResult
  /\ tex = NoTextures
  /\ pending = NoPending
  /\ loaded = << >>
  /\ saved = << >>
  /\ faults = << >>
  /\ batch = NoBatch

InitIdle == NoConversion /\ eval = NoEval

\* The directory holds any subset of a, a_s, a_n, a_mer; the normal file
\* has an alpha channel or not
AutoDisks ==
  { d \in Disks(AutoFiles, TinyPool) :
      \A f \in DOMAIN d : f # FileA_n => d[f] = DefaultTexture }

Init == InitIdle /\ disk \in AutoDisks

\* The pc a directional procedure returns to
returnPc(entry) == IF entry = "auto" THEN "autoReturn" ELSE "done"

\* outputDir || path.dirname(p)
finalOutputDir(outputDir, p) == IF outputDir # None THEN outputDir[1] ELSE p.dir

\* ------------------------------------------------------------------------
\* BidirectionalConverter.convertLabPBRToBedrock
\* ------------------------------------------------------------------------

\* Lines 131-145: up to the first loadTexture call
enterConvertLabPBRToBedrock(specularTexturePath, normalTexturePath, baseTexturePath) ==
  [args |-> [NoArgs EXCEPT !.specular = specularTexturePath,
                           !.normal = normalTexturePath,
                           !.base = baseTexturePath],
   result |-> push(newResult(specularTexturePath, Some(LabPBRToBedrock)),
                   <<"Loading textures...">>),
   pc |-> "loadSpecular",
   faults |-> << >>]

\* The direct call of convertLabPBRToBedrock
CallConvertLabPBRToBedrock ==
  /\ pc = "idle"
  /\ \E outputDir \in {None, Some(OutDir)}, options \in OptionsSet :
       LET e == enterConvertLabPBRToBedrock(FileA_s, FileA_n, FileA)
       IN  /\ options.conversionDirection = None
           /\ call' = [entry |-> "toBedrock", texturePath |-> FileA_s,
                       outputDir |-> outputDir, options |-> options]
           /\ args' = e.args
           /\ result' = e.result
           /\ pc' = e.pc
  /\ UNCHANGED <<eval, batch, disk, det, autoResult, tex, pending, loaded, saved, faults>>

\* A loadTexture call completes: it throws when the file does not exist
\* (textureLoader.ts 19-21) or cannot be decoded (28-30, 41-43)
LoadStep(role, path, okPc, okMessages) ==
  \E ok \in IF path \in DOMAIN disk THEN BOOLEAN ELSE {FALSE} :
    /\ loaded' = Append(loaded, [path |-> path, ok |-> ok])
    /\ IF ok
       THEN /\ tex' = [tex EXCEPT ![role] = disk[path]]
            /\ result' = [result EXCEPT !.messages = @ \o okMessages]
            /\ pc' = okPc
            /\ faults' = faults
       ELSE /\ tex' = tex
            /\ result' = catchError(result, <<"Failed to load texture ", path>>)
            /\ pc' = returnPc(call.entry)
            /\ faults' = Append(faults, "load")
    /\ UNCHANGED <<eval, batch, disk, call, det, args, autoResult, pending, saved>>

LoadSpecular ==
  /\ pc = "loadSpecular"
  /\ LoadStep("specular", args.specular, "loadNormal", << >>)

LoadNormal ==
  /\ pc = "loadNormal"
  /\ LoadStep("normal", args.normal, "loadBase", << >>)

\* Lines 147-162: the base texture is loaded, the channels are extracted and
\* createMERTexture is called
LoadBase ==
  /\ pc = "loadBase"
  /\ LoadStep("base", args.base, "createMER",
              << <<"Extracting channels...">>, <<"Creating MER texture...">> >>)

\* The packed texture convertLabPBRToBedrock hands to saveTexture
\* (lines 157-187)
buildMERTexture(specularTextureData) ==
  LET specularChannels == extractChannels(specularTextureData)
      merTexture == createMERTexture(specularChannels,
                                     specularTextureData.width,
                                     specularTextureData.height)
  IN  IF hasSubsurface(specularChannels, specularTextureData.width,
                       specularTextureData.height)
      THEN merTexture
      ELSE forceOpaque(merTexture)

\* The suffix of the packed output (line 177)
fileSuffix(specularTextureData) ==
  IF hasSubsurface(extractChannels(specularTextureData),
                   specularTextureData.width, specularTextureData.height)
  THEN S_mers ELSE S_mer

\* Lines 164-196: createMERTexture has returned; scan for subsurface, force
\* the alpha, name the output and call saveTexture
CreateMER ==
  /\ pc = "createMER"
  /\ pending' =
       [path |-> derivedPath(finalOutputDir(call.outputDir, args.specular),
                             args.base, fileSuffix(tex.specular)),
        texture |-> buildMERTexture(tex.specular)]
  /\ pc' = "saveMER"
  /\ UNCHANGED <<eval, batch, disk, call, det, args, result, autoResult, tex, loaded,
                 saved, faults>>

\* Line 256: the procedure succeeds
finish(res) ==
  [result |-> [res EXCEPT !.success = TRUE], pending |-> NoPending,
   pc |-> returnPc(call.entry), faults |-> << >>]

\* Lines 235-254: bake the ambient occlusion when asked to
afterHeightMap(res) ==
  IF call.options.bakeAO
  THEN [result |-> push(res, <<"Baking AO into base color...">>),
        pending |->
          [path |-> derivedPath(finalOutputDir(call.outputDir, args.specular),
                                args.base, S_withAO),
           texture |-> bakeAOIntoBaseColor(extractChannels(tex.normal).b,
                                           tex.base)],
        pc |-> "saveAO", faults |-> << >>]
  ELSE finish(res)

\* A guard that only looks at the option
wantsHeightMap_AnyChannels(options, normalTextureData) ==
  options.extractHeightMap

\* The guard of the heightmap extraction (line 218)
wantsHeightMap(options, normalTextureData) ==
  options.extractHeightMap /\ normalTextureData.channels = 4

\* Lines 217-233: extract the heightmap when asked to and when the normal
\* texture has an alpha channel; a throw of extractHeightMap is caught at
\* lines 258-261
afterNormalMap(res) ==
  IF wantsHeightMap(call.options, tex.normal)
  THEN IF extractHeightMapThrows(tex.normal)
       THEN [result |->
               catchError(push(res, <<"Extracting heightmap...">>),
                          <<"Normal texture does not have an alpha channel for heightmap extraction">>),
             pending |-> NoPending,
             pc |-> returnPc(call.entry),
             faults |-> <<"heightmap">>]
       ELSE [result |-> push(res, <<"Extracting heightmap...">>),
             pending |->
               [path |-> derivedPath(finalOutputDir(call.outputDir,
                                                    args.specular),
                                     args.base, S_heightmap),
                texture |-> extractHeightMap(tex.normal)],
             pc |-> "saveHeight",
             faults |-> << >>]
  ELSE afterHeightMap(res)

\* Lines 198-212: the packed texture is saved; build and save the normal map
afterMER(res) ==
  [result |-> push(res, <<"Creating Bedrock normal map...">>),
   pending |->
     [path |-> derivedPath(finalOutputDir(call.outputDir, args.specular),
                           args.base, S_normal),
      texture |-> reconstructNormalMap(tex.normal)],
   pc |-> "saveNormal", faults |-> << >>]

\* A save that does not record its output path
savedResult_NotRecorded(kind, savedMessage) ==
  push(result, savedMessage \o <<pending.path.file>>)

\* The result after a successful saveTexture call: the output is recorded
\* under kind and the 'Saved ...' message is pushed
savedResult(kind, savedMessage) ==
  push(setOutput(result, kind, pending.path),
       savedMessage \o <<pending.path.file>>)

\* A saveTexture call completes: it throws for the TGA format and when the
\* encoder or the file system fails (textureWriter.ts 26-69); otherwise the
\* file is written and the procedure goes on as n says
SaveStep(n) ==
  \E ok \in IF saveUnsupported(call.options.outputFormat, pending.path)
            THEN {FALSE} ELSE BOOLEAN :
    IF ok
    THEN /\ disk' = [f \in DOMAIN disk \cup {pending.path} |->
                       IF f = pending.path THEN pending.texture
                       ELSE disk[f]]
         /\ saved' = Append(saved, pending)
         /\ result' = n.result
         /\ pending' = n.pending
         /\ pc' = n.pc
         /\ faults' = faults \o n.faults
         /\ UNCHANGED <<eval, batch, call, det, args, autoResult, tex, loaded>>
    ELSE /\ result' = catchError(result, <<"Failed to save texture to ",
                                           pending.path>>)
         /\ pc' = returnPc(call.entry)
         /\ faults' = Append(faults, "save")
         /\ UNCHANGED <<eval, batch, disk, call, det, args, autoResult, tex, pending,
                        loaded, saved>>

SaveMER ==
  /\ pc = "saveMER"
  /\ SaveStep(afterMER(savedResult("mer",
                IF fileSuffix(tex.specular) = S_mers
                THEN <<"Saved MERS texture to: ">>
                ELSE <<"Saved MER texture to: ">>)))

SaveNormal ==
  /\ pc = "saveNormal"
  /\ SaveStep(afterNormalMap(savedResult("bedrockNormal",
                                         <<"Saved normal map to: ">>)))

SaveHeightMap ==
  /\ pc = "saveHeight"
  /\ SaveStep(afterHeightMap(savedResult("heightMap",
                                         <<"Saved heightmap to: ">>)))

SaveBaseColorWithAO ==
  /\ pc = "saveAO"
  /\ SaveStep(finish(savedResult("baseColorWithAO",
                                 <<"Saved base color with AO to: ">>)))

\* ------------------------------------------------------------------------
\* PBRConverter.convertTexture
\* ------------------------------------------------------------------------

\* Lines 27-50: up to the first loadTexture call; colorTexturePath is
\* optional and looked up when it is missing
enterConvertTexture(exists, merTexturePath, colorTexturePath, entry) ==
  LET res == newResult(merTexturePath, None)
      found == IF colorTexturePath # None THEN colorTexturePath
               ELSE findColorTexture(exists, merTexturePath)
  IN  IF found = None
      THEN [args |-> [NoArgs EXCEPT !.mer = merTexturePath],
            result |-> catchError(res,
                         <<"Could not find corresponding color texture">>),
            pc |-> returnPc(entry),
            faults |-> <<"color">>]
      ELSE [args |-> [NoArgs EXCEPT !.mer = merTexturePath,
                                    !.color = found[1]],
            result |->
              push(IF colorTexturePath = None
                   THEN push(res, <<"Found color texture: ", found[1].file>>)
                   ELSE res,
                   <<"Loading textures...">>),
            pc |-> "loadMER",
            faults |-> << >>]

\* The direct call of convertTexture
CallConvertTexture ==
  /\ pc = "idle"
  /\ \E colorTexturePath \in {None, Some(FileA)},
        outputDir \in {None, Some(OutDir)}, options \in OptionsSet :
       LET e == enterConvertTexture(DOMAIN disk, FileA_mer, colorTexturePath,
                                    "toLabPBR")
       IN  /\ options.conversionDirection = None
           /\ ~options.bakeAO
           /\ options.extractHeightMap
           /\ call' = [entry |-> "toLabPBR", texturePath |-> FileA_mer,
                       outputDir |-> outputDir, options |-> options]
           /\ args' = e.args
           /\ result' = e.result
           /\ pc' = e.pc
           /\ faults' = faults \o e.faults
  /\ UNCHANGED <<eval, batch, disk, det, autoResult, tex, pending, loaded, saved>>

LoadMER ==
  /\ pc = "loadMER"
  /\ LoadStep("mer", args.mer, "loadColor", << >>)

\* Lines 51-65: the colour texture is loaded, the channels are extracted and
\* createSpecularTexture is called
LoadColor ==
  /\ pc = "loadColor"
  /\ LoadStep("color", args.color, "createSpecular",
              << <<"Extracting channels...">>,
                 <<"Creating specular texture...">> >>)

\* The specular texture convertTexture hands to saveTexture (lines 55-65)
buildSpecularTexture(merTextureData, colorTextureData) ==
  createSpecularTexture(extractMERChannels(merTextureData),
                        extractChannels(colorTextureData),
                        merTextureData.width, merTextureData.height)

\* Lines 67-71: the path of the specular output
finalSpecularPath(outputDir, merTexturePath, colorTexturePath) ==
  LET specularPath == getSpecularTexturePath(colorTexturePath)
  IN  IF outputDir # None
      THEN Join(finalOutputDir(outputDir, merTexturePath), specularPath.file)
      ELSE specularPath

\* Lines 67-76: createSpecularTexture has returned; name the output and call
\* saveTexture
CreateSpecular ==
  /\ pc = "createSpecular"
  /\ pending' = [path |-> finalSpecularPath(call.outputDir, args.mer, args.color),
                 texture |-> buildSpecularTexture(tex.mer, tex.color)]
  /\ pc' = "saveSpecular"
  /\ UNCHANGED <<eval, batch, disk, call, det, args, result, autoResult, tex, loaded,
                 saved, faults>>

\* Lines 81-86
afterSpecular(res) ==
  finish(push(res,
    <<"Note: Normal map processing not implemented in this version">>))

SaveSpecular ==
  /\ pc = "saveSpecular"
  /\ SaveStep(afterSpecular(savedResult("specular",
                                        <<"Saved specular texture to: ">>)))

\* ------------------------------------------------------------------------
\* BidirectionalConverter.convertAuto
\* ------------------------------------------------------------------------

\* options.conversionDirection || (format === Bedrock ? ... : ...), lines
\* 36-39: an undefined direction and the direction 0 are falsy
chooseDirection(conversionDirection, format) ==
  IF conversionDirection # None /\ conversionDirection[1] # 0
  THEN conversionDirection[1]
  ELSE IF format = Bedrock THEN BedrockToLabPBR ELSE LabPBRToBedrock

\* a || b for an optional path a
orElse(a, b) == IF a # None THEN a[1] ELSE b

\* Lines 36-112 up to the first suspension: choice of the direction, and
\* either the call of the directional procedure or the throw that the catch
\* block turns into the returned result
dispatchConvertAuto(exists, texturePath, options, detectionResult) ==
  LET direction == chooseDirection(options.conversionDirection,
                                   detectionResult.format)
      res == push(newResult(texturePath, Some(direction)),
                  <<"Detected format: ", detectionResult.format,
                    detectionResult.confidence>>)
      failed(r, reason) ==
        [args |-> NoArgs, result |-> NoResult,
         autoResult |-> catchError(r, reason),
         pc |-> "done", faults |-> <<"auto">>]
      called(r, e) ==
        [args |-> e.args, result |-> e.result, autoResult |-> r,
         pc |-> e.pc, faults |-> e.faults]
  IN  IF direction = BedrockToLabPBR
      THEN LET r == push(res, <<"Converting from Bedrock to LabPBR format...">>)
               merTexturePath == orElse(detectionResult.merTexturePath,
                                        texturePath)
               colorTexturePath == detectionResult.baseTexturePath
           IN  IF colorTexturePath = None
               THEN failed(r, <<"Could not find required textures for Bedrock to LabPBR conversion">>)
               ELSE called(r, enterConvertTexture(exists, merTexturePath,
                                                  colorTexturePath, "auto"))
      ELSE IF direction = LabPBRToBedrock
      THEN LET r == push(res, <<"Converting from LabPBR to Bedrock format...">>)
               specularTexturePath == orElse(detectionResult.specularTexturePath,
                                             texturePath)
               normalTexturePath == detectionResult.normalTexturePath
               baseTexturePath == detectionResult.baseTexturePath
           IN  IF normalTexturePath = None \/ baseTexturePath = None
               THEN failed(r, <<"Could not find required textures for LabPBR to Bedrock conversion">>)
               ELSE called(r, enterConvertLabPBRToBedrock(specularTexturePath,
                              normalTexturePath[1], baseTexturePath[1]))
      ELSE failed(res, <<"Could not determine conversion direction">>)

\* Lines 34-112 up to the first suspension: detection, then the dispatch
enterConvertAuto(exists, texturePath, options) ==
  dispatchConvertAuto(exists, texturePath, options,
                      detectFormat(exists, texturePath))

\* convertAuto has run up to its first suspension, or to its return, as e says
startConvertAuto(texturePath, outputDir, options, detectionResult, e) ==
  /\ call' = [entry |-> "auto", texturePath |-> texturePath,
              outputDir |-> outputDir, options |-> options]
  /\ det' = detectionResult
  /\ args' = e.args
  /\ result' = e.result
  /\ autoResult' = e.autoResult
  /\ pc' = e.pc
  /\ faults' = faults \o e.faults

\* The call of convertAuto
CallConvertAuto ==
  /\ pc = "idle"
  /\ \E texturePath \in AutoFiles, outputDir \in {None, Some(OutDir)},
        options \in OptionsSet :
       startConvertAuto(texturePath, outputDir, options,
                        detectFormat(DOMAIN disk, texturePath),
                        enterConvertAuto(DOMAIN disk, texturePath, options))
  /\ UNCHANGED <<eval, batch, disk, tex, pending, loaded, saved>>

\* Lines 73-76 and 100-108: the directional procedure has returned; copy its
\* outcome into the result of convertAuto and return
AutoReturn ==
  /\ pc = "autoReturn"
  /\ autoResult' = [autoResult EXCEPT
                      !.success = result.success,
                      !.messages = @ \o result.messages,
                      !.outputPaths = result.outputPaths]
  /\ pc' = "done"
  /\ UNCHANGED <<eval, batch, disk, call, det, args, result, tex, pending, loaded, saved,
                 faults>>

\* ------------------------------------------------------------------------
\* Specifications
\* ------------------------------------------------------------------------

Next ==
  \/ CallConvertAuto
  \/ CallConvertLabPBRToBedrock
  \/ CallConvertTexture
  \/ AutoReturn
  \/ LoadSpecular
  \/ LoadNormal
  \/ LoadBase
  \/ CreateMER
  \/ SaveMER
  \/ SaveNormal
  \/ SaveHeightMap
  \/ SaveBaseColorWithAO
  \/ LoadMER
  \/ LoadColor
  \/ CreateSpecular
  \/ SaveSpecular

\* Any of the three conversion calls, on a directory with any subset of the
\* files a, a_s, a_n, a_mer
Spec == Init /\ [][Next]_vars

\* convertLabPBRToBedrock called directly on a_s, a_n and a, the specular
\* texture ranging over SpecularPool
InitToBedrock ==
  /\ InitIdle
  /\ \E s \in SpecularPool, nb \in CompanionPairs :
       disk = [f \in {FileA_s, FileA_n, FileA} |->
                 IF f = FileA_s THEN s ELSE IF f = FileA_n THEN nb[1] ELSE nb[2]]

NextToBedrock ==
  \/ CallConvertLabPBRToBedrock
  \/ LoadSpecular
  \/ LoadNormal
  \/ LoadBase
  \/ CreateMER
  \/ SaveMER
  \/ SaveNormal
  \/ SaveHeightMap
  \/ SaveBaseColorWithAO

SpecToBedrock == InitToBedrock /\ [][NextToBedrock]_vars

\* convertTexture called directly on a_mer, with or without the colour
\* texture a, the packed texture ranging over MERPool
InitToLabPBR ==
  /\ InitIdle
  /\ \E m \in MERPool, c \in ColorPool :
       disk = [f \in {FileA_mer, FileA} |-> IF f = FileA_mer THEN m ELSE c]

NextToLabPBR ==
  \/ CallConvertTexture
  \/ LoadMER
  \/ LoadColor
  \/ CreateSpecular
  \/ SaveSpecular

SpecToLabPBR == InitToLabPBR /\ [][NextToLabPBR]_vars

\* ------------------------------------------------------------------------
\* The convert-dir command (bidirectionalCli.ts 198-301)
\* ------------------------------------------------------------------------

FileA_normal == Join(InDir, <<"a">> \o S_normal \o DotPng)

FileB == Join(InDir, <<"b">> \o DotPng)

\* The files the directory of a convert-dir run may hold
BatchFiles == { FileA, FileA_s, FileA_n, FileA_mer, FileA_normal, FileB }

\* Lines 212-213: the files findTextureFiles keeps
isTextureFile(name) ==
  \/ EndsWith(name, DotPng)
  \/ EndsWith(name, <<".", "j", "p", "g">>)
  \/ EndsWith(name, DotTga)

\* findTextureFiles on one directory whose entries readdirSync lists in the
\* order of listing
findTextureFiles(listing) ==
  SelectSeq(listing, LAMBDA f : isTextureFile(f.file))

\* The orders in which readdirSync may list the files fs
Listings(fs) ==
  { l \in [1..Cardinality(fs) -> fs] :
      \A i, j \in 1..Cardinality(fs) : i # j => l[i] # l[j] }

\* Lines 244-254: the key of the texture set of a file
setKey(texturePath) ==
  Join(texturePath.dir,
       RemoveFirst(RemoveFirst(RemoveFirst(RemoveFirst(RemoveFirst(
         BaseName(texturePath.file, ExtName(texturePath.file)),
         S_s), S_n), S_mer), S_normal), S_heightmap))

\* Lines 230-235: the options convert-dir passes to convertAuto, with the
\* default output format
conversionOptions(bakeAo) ==
  [conversionDirection |-> None, outputFormat |-> Some(<<"p", "n", "g">>),
   bakeAO |-> bakeAo, extractHeightMap |-> TRUE]

\* Lines 254-256: the file belongs to a processed set and is skipped
skipFile(b, texturePath) ==
  [b EXCEPT !.i = @ + 1,
            !.log = Append(@, [file |-> texturePath,
                               key |-> setKey(texturePath),
                               outcome |-> "skipped"])]

\* A batch loop that stops at the first failed conversion
afterConversion_StopsOnFailure(b, texturePath, success) ==
  IF success
  THEN [b EXCEPT !.i = @ + 1,
                 !.successCount = @ + 1,
                 !.processedSets = @ \cup {setKey(texturePath)},
                 !.log = Append(@, [file |-> texturePath,
                                    key |-> setKey(texturePath),
                                    outcome |-> "success"])]
  ELSE [b EXCEPT !.i = Len(b.textureFiles),
                 !.failCount = @ + 1,
                 !.log = Append(@, [file |-> texturePath,
                                    key |-> setKey(texturePath),
                                    outcome |-> "failed"])]

\* Lines 267-283: convertAuto has returned; count the outcome and, on
\* success, mark the set as processed
afterConversion(b, texturePath, success) ==
  IF success
  THEN [b EXCEPT !.i = @ + 1,
                 !.successCount = @ + 1,
                 !.processedSets = @ \cup {setKey(texturePath)},
                 !.log = Append(@, [file |-> texturePath,
                                    key |-> setKey(texturePath),
                                    outcome |-> "success"])]
  ELSE [b EXCEPT !.i = @ + 1,
                 !.failCount = @ + 1,
                 !.log = Append(@, [file |-> texturePath,
                                    key |-> setKey(texturePath),
                                    outcome |-> "failed"])]

\* Lines 198-240: the directory is listed; an empty listing exits with 1
BatchStart ==
  /\ pc = "idle"
  /\ \E listing \in Listings(DOMAIN disk), bakeAo \in BOOLEAN :
       /\ batch' = [NoBatch EXCEPT
                      !.active = TRUE,
                      !.textureFiles = findTextureFiles(listing),
                      !.conversionOptions = conversionOptions(bakeAo),
                      !.exitCode = IF findTextureFiles(listing) = << >>
                                   THEN 1 ELSE 0]
       /\ pc' = IF findTextureFiles(listing) = << >>
                THEN "batchExit" ELSE "batchLoop"
  /\ UNCHANGED <<eval, disk, call, det, args, result, autoResult, tex, pending,
                 loaded, saved, faults>>

\* Lines 242-265: the next file of the listing is skipped, or convertAuto is
\* called on it and runs up to its first suspension
BatchStep ==
  /\ pc = "batchLoop"
  /\ batch.i < Len(batch.textureFiles)
  /\ IF setKey(batch.textureFiles[batch.i + 1]) \in batch.processedSets
     THEN /\ batch' = skipFile(batch, batch.textureFiles[batch.i + 1])
          /\ UNCHANGED <<eval, pc, call, det, args, result, autoResult, faults>>
     ELSE /\ startConvertAuto(batch.textureFiles[batch.i + 1], None,
                              batch.conversionOptions,
                              detectFormat(DOMAIN disk,
                                           batch.textureFiles[batch.i + 1]),
                              enterConvertAuto(DOMAIN disk,
                                               batch.textureFiles[batch.i + 1],
                                               batch.conversionOptions))
          /\ UNCHANGED batch
  /\ UNCHANGED <<eval, disk, tex, pending, loaded, saved>>

\* Lines 267-288: convertAuto has returned to the loop
BatchReturn ==
  /\ pc = "done"
  /\ batch.active
  /\ batch' = afterConversion(batch, call.texturePath, autoResult.success)
  /\ pc' = "batchLoop"
  /\ tex' = NoTextures
  /\ pending' = NoPending
  /\ loaded' = << >>
  /\ saved' = << >>
  /\ faults' = << >>
  /\ UNCHANGED <<eval, disk, call, det, args, result, autoResult>>

\* Lines 290-296: the loop is over; the exit code is 1 when a conversion
\* failed
BatchEnd ==
  /\ pc = "batchLoop"
  /\ batch.i = Len(batch.textureFiles)
  /\ batch' = [batch EXCEPT !.exitCode = IF batch.failCount > 0 THEN 1 ELSE 0]
  /\ pc' = "batchExit"
  /\ UNCHANGED <<eval, disk, call, det, args, result, autoResult, tex, pending,
                 loaded, saved, faults>>

\* The directory holds up to MaxBatchFiles of the files of BatchFiles
InitBatch ==
  /\ InitIdle
  /\ \E fs \in SUBSET BatchFiles :
       /\ Cardinality(fs) <= MaxBatchFiles
       /\ disk = [f \in fs |-> DefaultTexture]

NextBatch ==
  \/ BatchStart
  \/ BatchStep
  \/ BatchReturn
  \/ BatchEnd
  \/ AutoReturn
  \/ LoadSpecular
  \/ LoadNormal
  \/ LoadBase
  \/ CreateMER
  \/ SaveMER
  \/ SaveNormal
  \/ SaveHeightMap
  \/ SaveBaseColorWithAO
  \/ LoadMER
  \/ LoadColor
  \/ CreateSpecular
  \/ SaveSpecular

\* One convert-dir run
SpecBatch == InitBatch /\ [][NextBatch]_vars

\* ------------------------------------------------------------------------
\* Calls of the pure functions
\* ------------------------------------------------------------------------

\* The values of a byte of a Buffer
Bytes == 0..255

\* The variables of the conversion calls
conversionVars ==
  <<disk, pc, call, det, args, result, autoResult, tex, pending, loaded,
    saved, faults, batch>>

\* A call with the arguments a that has not run yet
called(a) == [op |-> "input", args |-> a, out |-> << >>, error |-> ""]

\* The call op returns v
returns(op, v) == [eval EXCEPT !.op = op, !.out = v]

\* WorkflowConverter is called on a byte
InitWorkflow ==
  /\ NoConversion
  /\ disk = << >>
  /\ \E x \in Bytes : eval = called(<<x>>)

EvalRoughnessToSmoothness ==
  /\ eval.op = "input"
  /\ eval' = returns("roughnessToSmoothness",
                     roughnessToSmoothness(eval.args[1]))
  /\ UNCHANGED conversionVars

\* smoothnessToRoughness is called on the result of roughnessToSmoothness
EvalSmoothnessToRoughness ==
  /\ eval.op = "roughnessToSmoothness"
  /\ eval' = returns("smoothnessToRoughness", smoothnessToRoughness(eval.out))
  /\ UNCHANGED conversionVars

EvalMetallicToF0 ==
  /\ eval.op = "input"
  /\ eval' = returns("metallicToF0", metallicToF0(eval.args[1]))
  /\ UNCHANGED conversionVars

EvalIsMetallic ==
  /\ eval.op = "input"
  /\ eval' = returns("isMetallic", isMetallic(eval.args[1]))
  /\ UNCHANGED conversionVars

EvalConvertEmissive ==
  /\ eval.op = "input"
  /\ eval' = returns("convertEmissive", convertEmissive(eval.args[1]))
  /\ UNCHANGED conversionVars

EvalConvertSubsurface ==
  /\ eval.op = "input"
  /\ eval' = returns("convertSubsurface", convertSubsurface(eval.args[1]))
  /\ UNCHANGED conversionVars

\* convertPorosity is called on a porosity of 0, 0.1, ..., 1
EvalConvertPorosity ==
  /\ eval.op = "input"
  /\ eval.args[1] <= 10
  /\ eval' = returns("convertPorosity", convertPorosity(eval.args[1]))
  /\ UNCHANGED conversionVars

NextWorkflow ==
  \/ EvalRoughnessToSmoothness
  \/ EvalSmoothnessToRoughness
  \/ EvalMetallicToF0
  \/ EvalIsMetallic
  \/ EvalConvertEmissive
  \/ EvalConvertSubsurface
  \/ EvalConvertPorosity

\* One call of a function of WorkflowConverter on any byte
SpecWorkflow == InitWorkflow /\ [][NextWorkflow]_vars

\* The green values reconstructNormalMapBlueChannel is called with
GreenSamples == {0, 1, 127, 128, 180, 181, 254, 255}

InitNormalBlue ==
  /\ NoConversion
  /\ disk = << >>
  /\ \E r \in Bytes, g \in GreenSamples : eval = called(<<r, g>>)

EvalReconstructNormalMapBlueChannel ==
  /\ eval.op = "input"
  /\ eval' = returns("reconstructNormalMapBlueChannel",
                     reconstructNormalMapBlueChannel(eval.args[1],
                                                     eval.args[2]))
  /\ UNCHANGED conversionVars

NextNormalBlue == EvalReconstructNormalMapBlueChannel

\* One call of reconstructNormalMapBlueChannel
SpecNormalBlue == InitNormalBlue /\ [][NextNormalBlue]_vars

\* Pixels of the buffers ChannelExtractor is called with
BufferSamples == { <<1, 2, 3, 4>>, <<250, 0, 255, 128>>, <<0, 77, 9, 255>> }

\* Buffers with 3 or 4 channels whose data has the length width * height *
\* channels, one byte less, or one byte more
BufferPool ==
  LET exact == { MakeTexture(px, Len(px), 1, ch) :
                   px \in Rows(BufferSamples), ch \in {3, 4} }
  IN  exact
      \cup { [t EXCEPT !.data = SubSeq(@, 1, Len(@) - 1)] : t \in exact }
      \cup { [t EXCEPT !.data = Append(@, 9)] : t \in exact }

InitChannels ==
  /\ NoConversion
  /\ disk = << >>
  /\ \E b \in BufferPool : eval = called(<<b>>)

EvalExtractChannels ==
  /\ eval.op = "input"
  /\ eval' = returns("extractChannels", extractChannels(eval.args[1]))
  /\ UNCHANGED conversionVars

\* combineChannels is called on the planes extractChannels returned
EvalCombineChannels ==
  /\ eval.op = "extractChannels"
  /\ eval' = returns("combineChannels", combineChannels(eval.out))
  /\ UNCHANGED conversionVars

\* extractChannels is called on the buffer combineChannels returned
EvalExtractAgain ==
  /\ eval.op = "combineChannels"
  /\ eval' = returns("extractAgain", extractChannels(eval.out))
  /\ UNCHANGED conversionVars

NextChannels ==
  \/ EvalExtractChannels
  \/ EvalCombineChannels
  \/ EvalExtractAgain

\* ChannelExtractor is called on a buffer, then on its own results
SpecChannels == InitChannels /\ [][NextChannels]_vars

\* The colours of the pixels the texture builders are called with: one for
\* each bucket of getPredefinedMetal, and one that matches no bucket
PixelColours ==
  { <<255, 200, 0>>, <<255, 100, 50>>, <<210, 220, 230>>, <<150, 150, 150>>,
    <<0, 0, 100>> }

\* A texture of one pixel whose bytes are all x, with 3 or 4 channels, and a
\* colour texture of one pixel
InitPixels ==
  /\ NoConversion
  /\ disk = << >>
  /\ \E x \in Bytes, c \in PixelColours, ch \in {3, 4} :
       eval = called(<< MakeTexture(<< <<x, x, x, x>> >>, 1, 1, ch),
                        MakeTexture(<<c>>, 1, 1, 3) >>)

\* f0ToMetallic is called on the green byte of the first texture
EvalF0ToMetallic ==
  /\ eval.op = "input"
  /\ eval' = returns("f0ToMetallic", f0ToMetallic(eval.args[1].data[2]))
  /\ UNCHANGED conversionVars

\* createMERTexture is called on the channels of the first texture, as
\* convertLabPBRToBedrock calls it on the specular texture (lines 151-162)
EvalCreateMERTexture ==
  /\ eval.op = "input"
  /\ eval' = returns("createMERTexture",
                     createMERTexture(extractChannels(eval.args[1]),
                                      eval.args[1].width, eval.args[1].height))
  /\ UNCHANGED conversionVars

\* createSpecularTexture is called on the channels of the two textures, as
\* convertTexture calls it on the packed and the colour texture
EvalCreateSpecularTexture ==
  /\ eval.op = "input"
  /\ eval' = returns("createSpecularTexture",
                     buildSpecularTexture(eval.args[1], eval.args[2]))
  /\ UNCHANGED conversionVars

\* createMERTexture is called on the channels of the specular texture that
\* createSpecularTexture returned
EvalCreateMERTextureBack ==
  /\ eval.op = "createSpecularTexture"
  /\ eval' = returns("createMERTextureBack",
                     createMERTexture(extractChannels(eval.out),
                                      eval.out.width, eval.out.height))
  /\ UNCHANGED conversionVars

NextPixels ==
  \/ EvalF0ToMetallic
  \/ EvalCreateMERTexture
  \/ EvalCreateSpecularTexture
  \/ EvalCreateMERTextureBack

\* The per-pixel texture builders of the two directions, on any byte
SpecPixels == InitPixels /\ [][NextPixels]_vars

\* extractHeightMap is called directly on the normal texture that a
\* finished convertLabPBRToBedrock call had loaded
EvalExtractHeightMap ==
  /\ pc = "done"
  /\ eval.op = "none"
  /\ tex.normal # NoTexture
  /\ eval' = IF extractHeightMapThrows(tex.normal)
             THEN [op |-> "extractHeightMap", args |-> <<tex.normal>>,
                   out |-> << >>, error |-> "MissingChannel"]
             ELSE [op |-> "extractHeightMap", args |-> <<tex.normal>>,
                   out |-> extractHeightMap(tex.normal), error |-> ""]
  /\ UNCHANGED conversionVars

NextHeightMap ==
  \/ CallConvertLabPBRToBedrock
  \/ LoadSpecular
  \/ LoadNormal
  \/ LoadBase
  \/ CreateMER
  \/ SaveMER
  \/ SaveNormal
  \/ SaveHeightMap
  \/ SaveBaseColorWithAO
  \/ EvalExtractHeightMap

\* convertLabPBRToBedrock, and extractHeightMap on its own
SpecHeightMap == InitToBedrock /\ [][NextHeightMap]_vars

\* Pairs of a pixel <<x, y, ambient occlusion, height>> of a normal texture
\* and the pixel <<r, g, b, a>> of the base colour texture at the same place
CompanionSamples ==
  { << <<128, 128, 255, 200>>, <<255, 51, 9, 77>> >>,
    << <<255, 255, 0, 17>>, <<100, 201, 50, 255>> >>,
    << <<0, 0, 170, 3>>, <<255, 51, 9, 0>> >>,
    << <<180, 181, 102, 255>>, <<45, 85, 165, 128>> >> }

\* A normal texture and a base colour texture of the same size, each with 3
\* or 4 channels
InitProcessor ==
  /\ NoConversion
  /\ disk = << >>
  /\ \E row \in Rows(CompanionSamples), chN \in {3, 4}, chB \in {3, 4} :
       eval = called(
         << MakeTexture([i \in 1..Len(row) |-> row[i][1]], Len(row), 1, chN),
            MakeTexture([i \in 1..Len(row) |-> row[i][2]], Len(row), 1, chB) >>)

EvalReconstructNormalMap ==
  /\ eval.op = "input"
  /\ eval' = returns("reconstructNormalMap",
                     reconstructNormalMap(eval.args[1]))
  /\ UNCHANGED conversionVars

\* createDirectXNormalMap is called on the X and Y planes of the normal
\* texture
EvalCreateDirectXNormalMap ==
  /\ eval.op = "input"
  /\ eval' = returns("createDirectXNormalMap",
                     createDirectXNormalMap(extractChannels(eval.args[1]).r,
                                            extractChannels(eval.args[1]).g,
                                            eval.args[1].width,
                                            eval.args[1].height))
  /\ UNCHANGED conversionVars

\* bakeAOIntoBaseColor is called on the blue plane of the normal texture and
\* on the base colour texture, as convertLabPBRToBedrock calls it (lines
\* 238-241)
EvalBakeAOIntoBaseColor ==
  /\ eval.op = "input"
  /\ eval' = returns("bakeAOIntoBaseColor",
                     bakeAOIntoBaseColor(extractChannels(eval.args[1]).b,
                                         eval.args[2]))
  /\ UNCHANGED conversionVars

NextProcessor ==
  \/ EvalReconstructNormalMap
  \/ EvalCreateDirectXNormalMap
  \/ EvalBakeAOIntoBaseColor

\* One call of a function of NormalMapProcessor
SpecProcessor == InitProcessor /\ [][NextProcessor]_vars

\* ------------------------------------------------------------------------
\* Properties
\* ------------------------------------------------------------------------

\* Byte c of pixel i (both from 0) of a texture
PixelByte(texture, i, c) == texture.data[i * texture.channels + c + 1]

PixelCount(texture) == texture.width * texture.height

\* Some pixel of the specular texture has blue >= 65
AnySubsurface(texture) ==
  \E i \in 0..(PixelCount(texture) - 1) : PixelByte(texture, i, 2) >= 65

\* The result the top-level call returns
Returned == IF call.entry = "auto" THEN autoResult ELSE result

\* The last message of a result is an error message
LastIsError(res) ==
  /\ Len(res.messages) >= 1
  /\ IsErrorMessage(res.messages[Len(res.messages)])

\* C1: every pixel i of the packed texture convertLabPBRToBedrock hands to
\* saveTexture has R = f0ToMetallic(specular G), G = 0, B = 255 - specular R
\* and A = specular B when that is >= 65 and 255 otherwise; forcing the
\* alpha of the whole image changes no R, G or B byte.
C1_PackedPixels ==
  pc = "saveMER" =>
    /\ pending.texture.channels = 4
    /\ \A i \in 0..(PixelCount(tex.specular) - 1) :
         /\ PixelByte(pending.texture, i, 0)
              = f0ToMetallic(PixelByte(tex.specular, i, 1))
         /\ PixelByte(pending.texture, i, 1) = 0
         /\ PixelByte(pending.texture, i, 2)
              = 255 - PixelByte(tex.specular, i, 0)
         /\ PixelByte(pending.texture, i, 3)
              = IF PixelByte(tex.specular, i, 2) >= 65
                THEN PixelByte(tex.specular, i, 2) ELSE 255

\* C2: the packed output is decided once per image: when no specular pixel
\* has blue >= 65 every alpha of the saved packed texture is 255 and the
\* file is <base>_mer<ext>; when some pixel has, the file is <base>_mers<ext>.
C2_SuffixPerImage ==
  (pc = "saveMER" /\ args.base = FileA) =>
    IF AnySubsurface(tex.specular)
    THEN pending.path.file = <<"a", "_", "m", "e", "r", "s", ".", "p", "n", "g">>
    ELSE /\ pending.path.file = <<"a", "_", "m", "e", "r", ".", "p", "n", "g">>
         /\ \A i \in 0..(PixelCount(pending.texture) - 1) :
              PixelByte(pending.texture, i, 3) = 255

\* Both branches of C2 on a two-pixel image: no subsurface pixel at all
C2_Witness ==
  /\ pc = "saveMER"
  /\ args.base = FileA
  /\ PixelCount(tex.specular) = 2
  /\ ~AnySubsurface(tex.specular)
  /\ pending.path.file = <<"a", "_", "m", "e", "r", ".", "p", "n", "g">>

\* The load and save faults of the call
IOFaults == { i \in 1..Len(faults) : faults[i] \in {"load", "save"} }

\* C3: convertAuto called with conversionDirection = Auto takes the direction
\* from the detector (Bedrock: packed -> LabPBR, LabPBR: LabPBR -> packed) and
\* succeeds when the required siblings exist and no load or save fails.
C3_AutoUsesDetector ==
  (pc = "done" /\ call.entry = "auto"
     /\ call.options.conversionDirection = Some(Auto)) =>
    /\ det.format = Bedrock =>
         /\ autoResult.conversionDirection = Some(BedrockToLabPBR)
         /\ (det.baseTexturePath # None /\ IOFaults = {})
              => autoResult.success
    /\ det.format = LabPBR =>
         /\ autoResult.conversionDirection = Some(LabPBRToBedrock)
         /\ (det.baseTexturePath # None /\ det.normalTexturePath # None
               /\ IOFaults = {})
              => autoResult.success

\* C4: a forced direction is honoured by convertAuto whatever the detector
\* finds: the forced procedure is the one that runs and the result carries
\* the forced direction.
C4_ForcedDirection ==
  (call.entry = "auto"
     /\ call.options.conversionDirection
          \in {Some(BedrockToLabPBR), Some(LabPBRToBedrock)}) =>
    /\ autoResult.conversionDirection = call.options.conversionDirection
    /\ call.options.conversionDirection = Some(BedrockToLabPBR)
         => args.specular = NoPath
    /\ call.options.conversionDirection = Some(LabPBRToBedrock)
         => args.mer = NoPath

\* C5: detectFormat answers LabPBR only when the LabPBR score is strictly
\* higher, Bedrock only when the Bedrock score is strictly higher, and
\* Unknown whenever the two scores are equal.
C5_StrictlyHigherWins ==
  (call.entry = "auto" /\ saved = << >>) =>
    LET lab == labPBRConfidence(DOMAIN disk, call.texturePath)
        bed == bedrockConfidence(DOMAIN disk, call.texturePath)
    IN  /\ det.format = LabPBR => lab > bed
        /\ det.format = Bedrock => bed > lab
        /\ lab = bed => det.format = Unknown

\* C6: for an existing input <base>_mer.<ext> whose sibling <base>.<ext>
\* exists, detectFormat answers Bedrock with confidence >= 0.7 and
\* merTexturePath set, whether or not <base>_s and <base>_n exist.
C6_MERInput ==
  (call.entry = "auto" /\ saved = << >> /\ call.texturePath = FileA_mer
     /\ {FileA_mer, FileA} \subseteq DOMAIN disk) =>
    /\ det.format = Bedrock
    /\ det.confidence >= 7
    /\ det.merTexturePath = Some(FileA_mer)

C6_Witness ==
  /\ call.entry = "auto"
  /\ saved = << >>
  /\ call.texturePath = FileA_mer
  /\ DOMAIN disk = AutoFiles
  /\ det.format = Bedrock

\* C7: for an existing input <base>_s.<ext> whose siblings <base>_n.<ext> and
\* <base>.<ext> exist, detectFormat answers LabPBR with confidence >= 0.7,
\* whether or not <base>_mer.<ext> exists.
C7_SpecularInput ==
  (call.entry = "auto" /\ saved = << >> /\ call.texturePath = FileA_s
     /\ {FileA_s, FileA_n, FileA} \subseteq DOMAIN disk) =>
    /\ det.format = LabPBR
    /\ det.confidence >= 7

C7_Witness ==
  /\ call.entry = "auto"
  /\ saved = << >>
  /\ call.texturePath = FileA_s
  /\ DOMAIN disk = AutoFiles
  /\ det.format = LabPBR

\* Plane c of a texture, pixel by pixel
Plane(texture, c) ==
  [i \in 1..PixelCount(texture) |-> PixelByte(texture, i - 1, c)]

\* The conversion of the 2x2 example is about to save its specular texture
ExampleConverted ==
  /\ pc = "saveSpecular"
  /\ tex.mer = ExampleMER
  /\ tex.color = ExampleColor

\* C8 as stated: the 2x2 example yields a 4-channel specular texture with
\* red channel [255,63,193,0] and alpha channel [0,0,128,128].
C8_ExampleAsStated ==
  ExampleConverted =>
    /\ pending.texture.channels = 4
    /\ Plane(pending.texture, 0) = <<255, 63, 193, 0>>
    /\ Plane(pending.texture, 3) = <<0, 0, 128, 128>>

\* C8 (amended): the 2x2 example yields a 4-channel specular texture with
\* red channel [255,127,74,0] and alpha channel [0,0,128,128].
C8_Example ==
  ExampleConverted =>
    /\ pending.texture.channels = 4
    /\ Plane(pending.texture, 0) = <<255, 127, 74, 0>>
    /\ Plane(pending.texture, 3) = <<0, 0, 128, 128>>

C8_Witness ==
  /\ ExampleConverted
  /\ PixelCount(pending.texture) = 4

\* C9: no fault escapes a conversion call: once a load, a save or a
\* processing step has failed the call only returns, and it returns
\* success = false with an 'Error: ...' message as the last message;
\* success = true is returned only when no step failed.
C9_FaultsAreCaught ==
  /\ faults # << >> =>
       /\ Len(faults) = 1
       /\ pc \in {"autoReturn", "done"}
       /\ pc = "autoReturn" =>
            /\ ~result.success
            /\ LastIsError(result)
       /\ pc = "done" =>
            /\ ~Returned.success
            /\ LastIsError(Returned)
  /\ (pc = "done" /\ Returned.success) => faults = << >>
  /\ (pc = "done" /\ ~Returned.success) => faults # << >>

\* A save fails inside convertAuto after the packed texture has been saved
C9_Witness ==
  /\ pc = "done"
  /\ call.entry = "auto"
  /\ faults = <<"save">>
  /\ Len(saved) >= 1
  /\ ~autoResult.success

\* C10: when detectFormat answers Unknown and the caller forces no
\* direction, convertAuto fails with an error message, loads no texture and
\* saves no file.
C10_UnknownFails ==
  (call.entry = "auto" /\ det.format = Unknown
     /\ call.options.conversionDirection \in {None, Some(Auto)}) =>
    /\ pc = "done"
    /\ ~autoResult.success
    /\ LastIsError(autoResult)
    /\ loaded = << >>
    /\ saved = << >>

C10_Witness ==
  /\ call.entry = "auto"
  /\ det.format = Unknown
  /\ call.options.conversionDirection = None
  /\ DOMAIN disk = {FileA_n}
  /\ pc = "done"

\* The files convert-dir has handled are the first batch.i files of the
\* listing, in the order of the listing
HandledInOrder ==
  /\ Len(batch.log) = batch.i
  /\ batch.i <= Len(batch.textureFiles)
  /\ \A k \in 1..Len(batch.log) : batch.log[k].file = batch.textureFiles[k]
  /\ batch.successCount + batch.failCount
       + Cardinality({ k \in 1..Len(batch.log) :
                        batch.log[k].outcome = "skipped" }) = Len(batch.log)

\* A file is skipped only after a successful conversion with the same key
SkippedAfterSuccess ==
  \A k \in 1..Len(batch.log) :
    batch.log[k].outcome = "skipped" =>
      \E j \in 1..(k - 1) : /\ batch.log[j].outcome = "success"
                            /\ batch.log[j].key = batch.log[k].key

\* The conversion that runs is the one of the next file of the listing
OneAtATime ==
  (batch.active /\ pc \notin {"batchLoop", "batchExit"}) =>
    /\ batch.i < Len(batch.textureFiles)
    /\ call.texturePath = batch.textureFiles[batch.i + 1]

\* C11: convert-dir handles the files one after another in listing order; a
\* failed conversion never ends the loop: every file of the listing ends up
\* converted or skipped, and a file is skipped only when an earlier
\* conversion with the same set key succeeded.
C11_BatchContinues ==
  /\ HandledInOrder
  /\ SkippedAfterSuccess
  /\ OneAtATime
  /\ pc = "batchExit" => Len(batch.log) = Len(batch.textureFiles)

\* A failed conversion is followed by a successful one and by a skipped file
C11_Witness ==
  /\ pc = "batchExit"
  /\ Len(batch.log) = 3
  /\ batch.log[1].outcome = "failed"
  /\ batch.log[2].outcome = "success"
  /\ batch.log[3].outcome = "skipped"
  /\ batch.exitCode = 1

\* The base name of the texture set a file name belongs to: the name
\* without its extension and without a final _s, _n, _mer, _normal or
\* _heightmap
SetBaseName(name) ==
  LET stem == BaseName(name, ExtName(name))
      suffixes == { x \in {S_heightmap, S_normal, S_mer, S_n, S_s} :
                      EndsWith(stem, x) }
  IN  IF suffixes = {} THEN stem
      ELSE SliceOff(stem, Len(CHOOSE x \in suffixes :
                                \A y \in suffixes : Len(y) <= Len(x)))

\* C12: all files of one texture set (<base>, <base>_s, <base>_n, <base>_mer,
\* <base>_normal, <base>_heightmap) get the same set key and two different
\* base names never get the same key, so after a successful conversion of a
\* set no other file of that set starts another conversion.
C12_OneKeyPerSet ==
  \A j, k \in 1..Len(batch.log) :
    LET sameSet == SetBaseName(batch.log[j].file.file)
                     = SetBaseName(batch.log[k].file.file)
    IN  /\ sameSet <=> batch.log[j].key = batch.log[k].key
        /\ (sameSet /\ j < k /\ batch.log[j].outcome = "success")
             => batch.log[k].outcome = "skipped"

\* C13: roughnessToSmoothness(r) is a byte for every byte r, it is 255 at
\* r = 0 and 0 at r = 255, and it never rises when r rises (checked between
\* every r and r - 1, which gives it for every pair).
C13_SmoothnessOfRoughness ==
  eval.op = "roughnessToSmoothness" =>
    LET r == eval.args[1]
    IN  /\ eval.out \in 0..255
        /\ r = 0 => eval.out = 255
        /\ r = 255 => eval.out = 0
        /\ r > 0 => roughnessToSmoothness(r - 1) >= eval.out

C13_Witness ==
  /\ eval.op = "roughnessToSmoothness"
  /\ eval.args[1] = 128
  /\ eval.out = 74

\* C14: smoothnessToRoughness(roughnessToSmoothness(r)) is r, r - 1 or
\* r + 1 for every byte r.
C14_RoundTripWithinOne ==
  eval.op = "smoothnessToRoughness" =>
    /\ eval.out - eval.args[1] <= 1
    /\ eval.args[1] - eval.out <= 1

\* A roughness the round trip does not give back
C14_Witness ==
  /\ eval.op = "smoothnessToRoughness"
  /\ eval.out # eval.args[1]

\* C15: metallicToF0(m) is in 230..255 for m in 201..255 and in 4..229 for
\* m in 0..200, so it is at least 230 exactly when isMetallic(m).
C15_MetalsFrom230 ==
  eval.op = "metallicToF0" =>
    LET m == eval.args[1]
    IN  /\ m \in 201..255 => eval.out \in 230..255
        /\ m \in 0..200 => eval.out \in 4..229
        /\ eval.out >= 230 <=> isMetallic(m)

C15_Witness ==
  /\ eval.op = "metallicToF0"
  /\ eval.args[1] = 201
  /\ eval.out = 230

\* The emissive plane of the packed texture being converted
SourceEmissive == extractMERChannels(tex.mer).emissive

\* C16: the specular texture a packed -> LabPBR conversion is about to save
\* has 4 channels, and the alpha of each pixel is the smaller of 254 and the
\* emissive value of that pixel in the packed texture, hence never 255.
C16_EmissiveBelow255 ==
  pc = "saveSpecular" =>
    /\ pending.texture.channels = 4
    /\ PixelCount(pending.texture) = PixelCount(tex.mer)
    /\ \A i \in 1..PixelCount(tex.mer) :
         /\ PixelByte(pending.texture, i - 1, 3) = Min(254, SourceEmissive[i])
         /\ PixelByte(pending.texture, i - 1, 3) # 255

\* A pixel whose emissive value 255 is saved as 254
C16_Witness ==
  /\ pc = "saveSpecular"
  /\ \E i \in 1..PixelCount(tex.mer) :
       /\ SourceEmissive[i] = 255
       /\ PixelByte(pending.texture, i - 1, 3) = 254

\* C17: convertSubsurface(0) is 0 and convertSubsurface(s) is in 65..255
\* for s in 1..255; convertPorosity(p) is in 0..64 for p = 0, 0.1, ..., 1.
C17_SubsurfaceAndPorosity ==
  /\ eval.op = "convertSubsurface" =>
       /\ eval.args[1] = 0 => eval.out = 0
       /\ eval.args[1] >= 1 => eval.out \in 65..255
  /\ eval.op = "convertPorosity" => eval.out \in 0..64

C17_Witness ==
  /\ eval.op = "convertSubsurface"
  /\ eval.args[1] = 1
  /\ eval.out = 65

\* C18: reconstructNormalMapBlueChannel(r, g) is a byte, it is 255 at
\* (0, 0), and it is 0 whenever r^2 + g^2 >= 255^2; it is never NaN (-1) or
\* negative.
C18_BlueIsAByte ==
  eval.op = "reconstructNormalMapBlueChannel" =>
    LET r == eval.args[1]
        g == eval.args[2]
    IN  /\ eval.out \in 0..255
        /\ (r = 0 /\ g = 0) => eval.out = 255
        /\ r * r + g * g >= 255 * 255 => eval.out = 0

\* A vector longer than 1, for which the square root is taken of 0
C18_Witness ==
  /\ eval.op = "reconstructNormalMapBlueChannel"
  /\ eval.args = <<255, 255>>
  /\ eval.out = 0

\* The buffer invariant: bytes.length = width * height * channelCount
wellFormed(b) == Len(b.data) = b.width * b.height * b.channels

\* C19: for a buffer b with 3 or 4 channels that satisfies the buffer
\* invariant, combineChannels(extractChannels(b)) has the width, height,
\* channel count and bytes of b, and extracting its channels again gives
\* the planes extractChannels(b) gave; b itself is left as it was.
C19_ExtractCombineRoundTrip ==
  (eval.op # "none" /\ eval.op # "input" /\ wellFormed(eval.args[1])) =>
    LET b == eval.args[1]
    IN  /\ eval.op = "extractChannels" =>
             /\ Len(eval.out.r) = b.width * b.height
             /\ (eval.out.a # None) <=> (b.channels = 4)
        /\ eval.op = "combineChannels" =>
             /\ eval.out.width = b.width
             /\ eval.out.height = b.height
             /\ eval.out.channels = b.channels
             /\ eval.out.data = b.data
        /\ eval.op = "extractAgain" => eval.out = extractChannels(b)

\* A buffer of two pixels with alpha has gone through the whole round trip
C19_Witness ==
  /\ eval.op = "extractAgain"
  /\ wellFormed(eval.args[1])
  /\ eval.args[1].channels = 4
  /\ PixelCount(eval.args[1]) = 2

\* The byte of channel c of pixel i (from 1) that extractChannels stores
\* when the buffer may be too short
StoredByte(b, i, c) ==
  LET k == (i - 1) * b.channels + c
  IN  IF k < Len(b.data) THEN b.data[k + 1] ELSE 0

MetallicStep(f0) ==
  IF f0 >= 200 THEN 255
  ELSE IF f0 \in 150..199 THEN 230
  ELSE IF f0 \in 100..149 THEN 180
  ELSE IF f0 \in 50..99 THEN 100
  ELSE 0

\* C21: f0ToMetallic(f0) is 255 for f0 >= 200, 230 for 150..199, 180 for
\* 100..149, 100 for 50..99 and 0 for 0..49, it never falls when f0 rises,
\* and the metallic byte createMERTexture writes for a pixel is f0ToMetallic
\* of the pixel's reflectance (the green byte of the specular texture).
C21_MetallicIsAStepFunction ==
  LET f0 == eval.args[1].data[2]
  IN  /\ eval.op = "f0ToMetallic" =>
           /\ eval.out = MetallicStep(f0)
           /\ f0 > 0 => f0ToMetallic(f0 - 1) <= eval.out
      /\ eval.op = "createMERTexture" =>
           /\ eval.out.channels = 4
           /\ eval.out.data[1] = f0ToMetallic(f0)

\* A reflectance of 150 is written as the metallic value 230
C21_Witness ==
  /\ eval.op = "createMERTexture"
  /\ eval.args[1].data[2] = 150
  /\ eval.out.data[1] = 230

\* The alpha plane of a texture as a texture with one channel
AlphaPlane(texture) ==
  [width |-> texture.width, height |-> texture.height,
   data |-> [i \in 1..PixelCount(texture) |-> PixelByte(texture, i - 1, 3)],
   channels |-> 1]

\* C22: extractHeightMap fails with a MissingChannel error when the normal
\* texture does not have 4 channels, and otherwise returns a texture with
\* one channel and the same width and height whose byte i is the alpha of
\* pixel i; convertLabPBRToBedrock calls it only when the normal texture
\* has 4 channels and extractHeightMap is not false, so the heightmap
\* extraction never makes a conversion fail.
C22_HeightMapNeedsAlpha ==
  /\ eval.op = "extractHeightMap" =>
       IF eval.args[1].channels # 4
       THEN eval.error = "MissingChannel"
       ELSE /\ eval.error = ""
            /\ eval.out = AlphaPlane(eval.args[1])
  /\ pc = "saveHeight" =>
       /\ tex.normal.channels = 4
       /\ call.options.extractHeightMap
       /\ pending.texture = AlphaPlane(tex.normal)
  /\ \A i \in 1..Len(faults) : faults[i] # "heightmap"
  /\ (pc = "done" /\ tex.normal.channels # 4) =>
       \A i \in 1..Len(saved) :
         saved[i].path.file # BaseName(FileA.file, DotPng) \o S_heightmap \o DotPng

\* A conversion with a 3-channel normal texture and the heightmap option
\* has succeeded, and extractHeightMap fails on that texture
C22_Witness ==
  /\ pc = "done"
  /\ result.success
  /\ call.options.extractHeightMap
  /\ tex.normal.channels = 3
  /\ eval.op = "extractHeightMap"
  /\ eval.error = "MissingChannel"

\* C23: bakeAOIntoBaseColor returns a texture with the width, height and
\* channel count of the base colour in which every byte of channels 0..2 is
\* the base colour byte times (255 + ao) / 510 rounded to a nearest integer
\* (unchanged for ao = 255, a half for ao = 0, never more than the input)
\* and the alpha byte, when there is one, is the input alpha.
C23_AOBakedIntoColour ==
  eval.op = "bakeAOIntoBaseColor" =>
    LET base == eval.args[2]
        out == eval.out
    IN  /\ out.width = base.width
        /\ out.height = base.height
        /\ out.channels = base.channels
        /\ Len(out.data) = Len(base.data)
        /\ \A i \in 0..(PixelCount(base) - 1) :
             LET ao == PixelByte(eval.args[1], i, 2)
             IN  /\ \A c \in 0..2 :
                      LET in == PixelByte(base, i, c)
                          o == PixelByte(out, i, c)
                      IN  /\ 510 * o - 255 <= in * (255 + ao)
                          /\ in * (255 + ao) <= 510 * o + 255
                          /\ ao = 255 => o = in
                          /\ ao = 0 => o = (in + 1) \div 2
                          /\ o <= in
                 /\ base.channels = 4 =>
                      PixelByte(out, i, 3) = PixelByte(base, i, 3)

\* A colour with alpha is darkened by an ambient occlusion of 170, for
\* which the red byte 255 becomes 212
C23_Witness ==
  /\ eval.op = "bakeAOIntoBaseColor"
  /\ eval.args[2].channels = 4
  /\ \E i \in 0..(PixelCount(eval.args[2]) - 1) :
       /\ PixelByte(eval.args[1], i, 2) = 170
       /\ PixelByte(eval.args[2], i, 0) = 255
       /\ PixelByte(eval.out, i, 0) = 212

\* The normal map of the X and Y bytes of a texture: R = x, G = y and
\* B = reconstructNormalMapBlueChannel(x, y) for every pixel
IsNormalMapOf(out, texture) ==
  /\ out.width = texture.width
  /\ out.height = texture.height
  /\ out.channels = 3
  /\ Len(out.data) = 3 * PixelCount(texture)
  /\ \A i \in 0..(PixelCount(texture) - 1) :
       /\ PixelByte(out, i, 0) = PixelByte(texture, i, 0)
       /\ PixelByte(out, i, 1) = PixelByte(texture, i, 1)
       /\ PixelByte(out, i, 2) =
            reconstructNormalMapBlueChannel(PixelByte(texture, i, 0),
                                            PixelByte(texture, i, 1))

\* C27: reconstructNormalMap on a texture and createDirectXNormalMap on the
\* X and Y planes of that texture return the same texture with 3 channels:
\* for every pixel R = x, G = y and B = reconstructNormalMapBlueChannel(x,
\* y), whatever the blue and alpha bytes of the input are.
C27_SameNormalMap ==
  /\ eval.op = "reconstructNormalMap" =>
       /\ IsNormalMapOf(eval.out, eval.args[1])
       /\ eval.out = createDirectXNormalMap(extractChannels(eval.args[1]).r,
                                            extractChannels(eval.args[1]).g,
                                            eval.args[1].width,
                                            eval.args[1].height)
  /\ eval.op = "createDirectXNormalMap" =>
       /\ IsNormalMapOf(eval.out, eval.args[1])
       /\ eval.out = reconstructNormalMap(eval.args[1])

\* A normal texture with height and ambient occlusion whose blue is
\* reconstructed as 0
C27_Witness ==
  /\ eval.op = "reconstructNormalMap"
  /\ eval.args[1].channels = 4
  /\ PixelByte(eval.args[1], 0, 0) = 255
  /\ PixelByte(eval.args[1], 0, 2) = 0
  /\ PixelByte(eval.out, 0, 2) = 0
  /\ PixelCount(eval.args[1]) = 2

\* The paths a DetectionResult populates
PopulatedPaths(d) ==
  { p[1] : p \in { d.baseTexturePath, d.merTexturePath,
                   d.specularTexturePath, d.normalTexturePath } \ {None} }

\* C24: in the DetectionResult of every convertAuto call each populated
\* path names a file that exists, the confidence is between 0 and 1 (0 and
\* 10 tenths), and the format Unknown comes with confidence 0 and no path.
C24_DetectionResultIsSound ==
  call.entry = "auto" =>
    /\ PopulatedPaths(det) \subseteq DOMAIN disk
    /\ det.confidence \in 0..10
    /\ det.format = Unknown =>
         /\ det.confidence = 0
         /\ PopulatedPaths(det) = {}

\* A LabPBR result whose normal texture exists and whose specular texture
\* does not
C24_Witness ==
  /\ call.entry = "auto"
  /\ det.format = LabPBR
  /\ det.normalTexturePath = Some(FileA_n)
  /\ det.specularTexturePath = None
  /\ FileA_s \notin DOMAIN disk

\* C25: the reflectance (green) createSpecularTexture writes for a pixel is
\* getPredefinedMetal of the pixel's colour when its metallic value is above
\* 200 and metallicToF0 of the metallic value otherwise: a metallic pixel
\* gets one of the codes 230, 231, 234, 237 (Iron for a colour in no
\* bucket) and a non-metallic pixel a value below 230.
C25_ReflectanceByClass ==
  eval.op = "createSpecularTexture" =>
    LET metallic == eval.args[1].data[1]
        c == eval.args[2].data
        f0 == eval.out.data[2]
    IN  /\ metallic > 200 =>
             /\ f0 = getPredefinedMetal(c[1], c[2], c[3])
             /\ f0 \in {Iron, Gold, Copper, Silver}
             /\ c = <<255, 200, 0>> => f0 = Gold
             /\ c = <<255, 100, 50>> => f0 = Copper
             /\ c = <<210, 220, 230>> => f0 = Silver
             /\ c \in { <<150, 150, 150>>, <<0, 0, 100>> } => f0 = Iron
        /\ metallic <= 200 =>
             /\ f0 = metallicToF0(metallic)
             /\ f0 < 230

\* A metallic pixel whose colour is in no bucket gets the code of iron
C25_Witness ==
  /\ eval.op = "createSpecularTexture"
  /\ eval.args[1].data[1] = 201
  /\ eval.args[2].data = <<0, 0, 100>>
  /\ eval.out.data[2] = 230

\* C26: the blue byte createSpecularTexture writes for a pixel is
\* convertSubsurface(subsurface) when the packed texture has an alpha plane
\* and the pixel's subsurface is above 0, and convertPorosity(0.1) = 6
\* otherwise: it is 6 or in 65..255, and at least 65 exactly for the pixels
\* with a subsurface above 0.
C26_SubsurfaceOrDefaultPorosity ==
  eval.op = "createSpecularTexture" =>
    LET mer == eval.args[1]
        present == mer.channels = 4 /\ mer.data[mer.channels] > 0
        blue == eval.out.data[3]
    IN  /\ present =>
             /\ blue = convertSubsurface(mer.data[4])
             /\ blue \in 65..255
        /\ ~present => blue = 6
        /\ blue >= 65 <=> present

\* A pixel without subsurface in a texture that has an alpha plane
C26_Witness ==
  /\ eval.op = "createSpecularTexture"
  /\ eval.args[1].channels = 4
  /\ eval.args[1].data[4] = 0
  /\ eval.out.data[3] = 6

\* C28 as stated: the metallic value that comes back from a packed ->
\* LabPBR -> packed round trip is above 200 exactly when the original is.
C28_ClassSurvives ==
  eval.op = "createMERTextureBack" =>
    (isMetallic(eval.out.data[1]) <=> isMetallic(eval.args[1].data[1]))

\* C28 (amended): after a packed -> LabPBR -> packed round trip a metallic
\* value above 200 comes back as 255 and a value of at most 164 comes back
\* as at most 180, so these keep their class; a value in 165..200 gets a
\* reflectance in 150..180 and comes back as 230, which is metallic.
C28_ClassSurvivesOutside165To200 ==
  eval.op = "createMERTextureBack" =>
    LET m == eval.args[1].data[1]
        back == eval.out.data[1]
    IN  /\ m > 200 => back = 255
        /\ m <= 164 => back \in {0, 100, 180}
        /\ m \in 165..200 => back = 230

\* A non-metallic value that comes back as metallic
C28_Witness ==
  /\ eval.op = "createMERTextureBack"
  /\ eval.args[1].data[1] = 170
  /\ eval.out.data[1] = 230

\* C29: in every call convertAuto makes to a directional procedure the
\* specular path is neither the normal path nor the base path, and the MER
\* path is not the colour path.
C29_OneRolePerFile ==
  (call.entry = "auto" /\ args # NoArgs) =>
    /\ args.specular # NoPath =>
         /\ args.specular # args.normal
         /\ args.specular # args.base
    /\ args.mer # NoPath => args.mer # args.color

\* The kinds of the recorded outputs, in the order of their recording
RecordedKinds == [i \in 1..Len(result.outputPaths) |-> result.outputPaths[i][1]]

\* The orders in which convertLabPBRToBedrock may have recorded its outputs
KindOrders ==
  { << >>, <<"mer">>, <<"mer", "bedrockNormal">>,
    <<"mer", "bedrockNormal", "heightMap">>,
    <<"mer", "bedrockNormal", "baseColorWithAO">>,
    <<"mer", "bedrockNormal", "heightMap", "baseColorWithAO">> }

\* The suffixes of the file names saved for a kind of output
KindSuffixes(kind) ==
  IF kind = "mer" THEN {S_mer, S_mers}
  ELSE IF kind = "bedrockNormal" THEN {S_normal}
  ELSE IF kind = "heightMap" THEN {S_heightmap}
  ELSE {S_withAO}

\* C30: in every state of a convertLabPBRToBedrock call and in its result,
\* also a failed one, outputPaths holds exactly the outputs whose
\* saveTexture call has completed, under their kinds and in the order MER,
\* normal map, heightmap, AO-baked colour; success = true implies that mer
\* and bedrockNormal are among them.
C30_OutputsAreTheSavedFiles ==
  /\ Len(result.outputPaths) = Len(saved)
  /\ RecordedKinds \in KindOrders
  /\ \A i \in 1..Len(saved) :
       /\ result.outputPaths[i][2] = saved[i].path
       /\ \E suffix \in KindSuffixes(RecordedKinds[i]) :
            EndsWith(BaseName(saved[i].path.file, DotPng), suffix)
  /\ result.success => {"mer", "bedrockNormal"} \subseteq OutputKinds(result)

\* A call that failed after it had saved the packed texture and the normal
\* map
C30_Witness ==
  /\ pc = "done"
  /\ ~result.success
  /\ RecordedKinds = <<"mer", "bedrockNormal">>
  /\ Len(saved) = 2

====
